---- MODULE Spec2Model ----
(***************************************************************************)
(* Model of the SENTINEL extraction pipeline: the Segmenter               *)
(* (backend/app/engine/segmenter.py), the FallbackExtractor and the       *)
(* TreeSitterManager it uses, the SecretScanner                           *)
(* (backend/app/services/secret_scanner.py) and the BatchProcessor        *)
(* (backend/app/engine/batch_processor.py).  A text is the list            *)
(* text.split('\n') of its lines; a line is its sequence of characters.    *)
(* Line numbers are kept exactly as the code computes them.                *)
(***************************************************************************)
EXTENDS Integers, Sequences, FiniteSets, TLC

\* ------------------------------------------------------------------ bounds
\* Longest text (in lines) over the full line alphabet.
MaxLines == 5
\* Longest text (in lines) over the dense alphabet (density windows need 6).
MaxDenseLines == 7
\* Longest candidate list handed to _deduplicate_blocks on its own.
MaxCands == 3
\* Longest probe text of the repeated-call runs.
MaxProbeLines == 2
\* Calls on the probe arguments that are counted.
MaxProbeCalls == 2
MaxCodeLen == 5
MaxThreads == 2
MaxNodes == 3
MaxCalls == 2
MaxScanLines == 2
\* Longest file_ids list of a batch.
MaxBatchFiles == 2
\* Number of extract_file requests in flight.
MaxExtractCalls == 2

\* Python's None, for values that are otherwise character sequences.
None == <<"None">>

\* ------------------------------------------------------- characters, strings
\* Stands for the backtick character, which a TLA+ string cannot hold.
BACKTICK == "backtick"

WS == {" ", "\t", "\n"}

LowerLetters ==
  {"a","b","c","d","e","f","g","h","i","j","k","l","m",
   "n","o","p","q","r","s","t","u","v","w","x","y","z"}

UpperToLower ==
  [A |-> "a", B |-> "b", C |-> "c", D |-> "d", E |-> "e", F |-> "f", G |-> "g",
   H |-> "h", I |-> "i", J |-> "j", K |-> "k", L |-> "l", M |-> "m", N |-> "n",
   O |-> "o", P |-> "p", Q |-> "q", R |-> "r", S |-> "s", T |-> "t", U |-> "u",
   V |-> "v", W |-> "w", X |-> "x", Y |-> "y", Z |-> "z"]

Digits == {"0","1","2","3","4","5","6","7","8","9"}

\* The regular-expression class \w.
WordChars == LowerLetters \cup DOMAIN UpperToLower \cup Digits \cup {"_"}

MinOf(S) == CHOOSE x \in S : \A y \in S : x <= y
MaxOf(S) == CHOOSE x \in S : \A y \in S : x >= y

\* str.lower()
lower(s) == [i \in DOMAIN s |-> IF s[i] \in DOMAIN UpperToLower THEN UpperToLower[s[i]] ELSE s[i]]

\* str.strip(), str.lstrip()
strip(s) ==
  LET nz == {i \in 1..Len(s) : s[i] \notin WS}
  IN  IF nz = {} THEN <<>> ELSE SubSeq(s, MinOf(nz), MaxOf(nz))

lstrip(s) ==
  LET nz == {i \in 1..Len(s) : s[i] \notin WS}
  IN  IF nz = {} THEN <<>> ELSE SubSeq(s, MinOf(nz), Len(s))

startswith(s, p) == Len(s) >= Len(p) /\ SubSeq(s, 1, Len(p)) = p
endswith(s, p) == Len(s) >= Len(p) /\ SubSeq(s, Len(s) - Len(p) + 1, Len(s)) = p

\* The maximal runs of characters of s that satisfy (member = TRUE: lie in C;
\* member = FALSE: lie outside C), left to right.
RECURSIVE Runs(_, _, _)
Runs(s, C, member) ==
  LET inRun(c) == (c \in C) = member
      st == {i \in 1..Len(s) : inRun(s[i])}
  IN  IF st = {} THEN <<>>
      ELSE LET a  == MinOf(st)
               en == {i \in a..Len(s) : ~inRun(s[i])}
               b  == IF en = {} THEN Len(s) + 1 ELSE MinOf(en)
           IN  <<SubSeq(s, a, b - 1)>> \o Runs(SubSeq(s, b, Len(s)), C, member)

\* str.split(): the whitespace-separated words.
split(s) == Runs(s, WS, FALSE)

\* str.split(' ')[0]: the prefix before the first space character.
split_space_first(s) ==
  LET sp == {i \in 1..Len(s) : s[i] = " "}
  IN  IF sp = {} THEN s ELSE SubSeq(s, 1, MinOf(sp) - 1)

\* '\n'.join(ls) for a list ls of character sequences.
RECURSIVE join(_)
join(ls) ==
  IF ls = <<>> THEN <<>>
  ELSE IF Len(ls) = 1 THEN ls[1]
  ELSE ls[1] \o <<"\n">> \o join(Tail(ls))

\* -------------------------------------------------- Segmenter class constants
TECHNICAL_CHARS ==
  {"{","}","[","]","(",")","<",">",";",":","=","+","-","*","/","%","&","|","!","~","^","#","@","$"}

KEYWORDS ==
  { <<"d","e","f">>, <<"c","l","a","s","s">>, <<"f","u","n","c","t","i","o","n">>,
    <<"v","a","r">>, <<"l","e","t">>, <<"c","o","n","s","t">>, <<"i","m","p","o","r","t">>,
    <<"e","x","p","o","r","t">>, <<"i","f">>, <<"e","l","s","e">>, <<"f","o","r">>,
    <<"w","h","i","l","e">>, <<"r","e","t","u","r","n">>, <<"v","o","i","d">>, <<"i","n","t">>,
    <<"s","t","r","i","n","g">>, <<"p","u","b","l","i","c">>, <<"p","r","i","v","a","t","e">>,
    <<"s","t","a","t","i","c">>, <<"a","s","y","n","c">>, <<"a","w","a","i","t">>,
    <<"t","r","y">>, <<"c","a","t","c","h">> }

START_KEYWORDS ==
  { <<"i","m","p","o","r","t">>, <<"f","r","o","m">>, <<"p","a","c","k","a","g","e">>,
    <<"n","a","m","e","s","p","a","c","e">>, <<"d","e","f">>, <<"c","l","a","s","s">>,
    <<"f","u","n","c">>, <<"f","u","n","c","t","i","o","n">>, <<"p","u","b">>, <<"f","n">>,
    <<"s","t","r","u","c","t">>, <<"e","n","u","m">>, <<"i","m","p","l">>,
    <<"i","n","t","e","r","f","a","c","e">>, <<"t","y","p","e">>, <<"c","o","n","s","t">>,
    <<"v","a","r">>, <<"l","e","t">>, <<"p","u","b","l","i","c">>,
    <<"p","r","i","v","a","t","e">>, <<"p","r","o","t","e","c","t","e","d">>,
    <<"v","o","i","d">>, <<"#","i","n","c","l","u","d","e">>, <<"#","d","e","f","i","n","e">>,
    <<"u","s","i","n","g">>, <<"t","y","p","e","d","e","f">>, <<"i","f">>, <<"e","l","s","e">>,
    <<"t","r","y">>, <<"c","a","t","c","h">>, <<"f","i","n","a","l","l","y">>,
    <<"<","?","p","h","p">>, <<"r","e","q","u","i","r","e">>, <<"i","n","c","l","u","d","e">>,
    <<"t","r","a","i","t">>, <<"a","b","s","t","r","a","c","t">>, <<"f","i","n","a","l">>,
    <<"m","o","d","u","l","e">>,
    <<"r","e","q","u","i","r","e","_","r","e","l","a","t","i","v","e">>,
    <<"a","l","i","a","s">>, <<"f","u","n">>, <<"v","a","l">>, <<"d","a","t","a">>,
    <<"o","b","j","e","c","t">>, <<"e","x","p","o","r","t">>, <<"e","c","h","o">>,
    <<"s","o","u","r","c","e">>, <<"#">>, <<"<","!","D","O","C","T","Y","P","E">>,
    <<"<","h","t","m","l">>, <<"<","h","e","a","d">>, <<"<","b","o","d","y">>,
    <<"<","d","i","v">>, <<"<","s","c","r","i","p","t">>, <<"<","s","t","y","l","e">>,
    <<"@","m","e","d","i","a">>, <<"@","i","m","p","o","r","t">>, <<"S","E","L","E","C","T">>,
    <<"I","N","S","E","R","T">>, <<"U","P","D","A","T","E">>, <<"D","E","L","E","T","E">>,
    <<"C","R","E","A","T","E">>, <<"D","R","O","P">>, <<"A","L","T","E","R">> }

COMPLEXITY_WORDS ==
  { <<"d","e","f">>, <<"c","l","a","s","s">>, <<"i","f">>, <<"f","o","r">>,
    <<"w","h","i","l","e">>, <<"r","e","t","u","r","n">> }

\* ------------------------------------------------------------ line alphabet
\* The lines texts are built from, each the character sequence of a real line.
LINES ==
  [ B |-> <<>>,
    P |-> <<"H","e","r","e"," ","i","s"," ","s","o","m","e"," ","p","l","a","i","n"," ","p","r","o","s","e">>,
    Fp |-> <<BACKTICK,BACKTICK,BACKTICK,"p","y","t","h","o","n">>,
    Fc |-> <<BACKTICK,BACKTICK,BACKTICK>>,
    D |-> <<"d","e","f"," ","f","(",")",":">>,
    R |-> <<" "," "," "," ","r","e","t","u","r","n"," ","1">>,
    X |-> <<"x"," ","="," ","(","a","+","b",")","*","c",";">>,
    S |-> <<"#"," ","-","-","-"," ","S","E","C","T","I","O","N",":"," ","P","Y","T","H","O","N"," ","-","-","-">>,
    I |-> <<" "," "," "," ","x"," ","="," ","{","a",":"," ","[","b","]","}",";">>,
    Pw |-> <<" "," "," "," ","p","w","d","=","\"","h","u","n","t","e","r","2","\"">> ]

LineIds == DOMAIN LINES

\* ------------------------------------------------------------------ numbers
\* Confidences and densities are the exact rationals n/d of the code's
\* float expressions, kept in lowest terms.
RECURSIVE GCD(_, _)
GCD(a, b) == IF b = 0 THEN a ELSE GCD(b, a % b)

Rat(n, d) == LET g == GCD(n, d) IN [n |-> n \div g, d |-> d \div g]
RatGT(a, b) == a.n * b.d > b.n * a.d
RatGE(a, b) == a.n * b.d >= b.n * a.d
RatMin(a, b) == IF RatGT(a, b) THEN b ELSE a
Zero == Rat(0, 1)
One == Rat(1, 1)

RECURSIVE SumOver(_, _)
SumOver(f, ls) == IF ls = <<>> THEN 0 ELSE f[Head(ls)] + SumOver(f, Tail(ls))

Max2(a, b) == IF a >= b THEN a ELSE b

\* ------------------------------------------------------- per-line analysis
\* What the code's string expressions evaluate to on each line of the
\* alphabet.  '\n' is neither technical nor a word character, and it is
\* whitespace, so the counts of a joined text are the sums over its lines.
LineLen == [l \in LineIds |-> Len(LINES[l])]

TechCount ==
  [l \in LineIds |-> Cardinality({i \in DOMAIN LINES[l] : LINES[l][i] \in TECHNICAL_CHARS})]

Words == [l \in LineIds |-> split(LINES[l])]

WordCount == [l \in LineIds |-> Len(Words[l])]

KeywordCount ==
  [l \in LineIds |-> Cardinality({i \in DOMAIN Words[l] : lower(Words[l][i]) \in KEYWORDS})]

\* not line.strip()
IsBlank == [l \in LineIds |-> strip(LINES[l]) = <<>>]

AllBlank(ls) == \A i \in DOMAIN ls : IsBlank[ls[i]]

\* len('\n'.join(ls))
JoinedLen(ls) == SumOver(LineLen, ls) + Max2(Len(ls) - 1, 0)

\* Segmenter._calculate_technical_density on '\n'.join(ls):
\* tech/max(len,1)*0.7 + keywords/max(words,1)*0.3
_calculate_technical_density(ls) ==
  IF AllBlank(ls) THEN Zero
  ELSE LET tech_count    == SumOver(TechCount, ls)
           nwords        == Max2(SumOver(WordCount, ls), 1)
           keyword_count == SumOver(KeywordCount, ls)
           length        == Max2(JoinedLen(ls), 1)
       IN  Rat(7 * tech_count * nwords + 3 * keyword_count * length, 10 * length * nwords)

\* re.findall(r'\b(def|class|if|for|while|return)\b', line): the maximal
\* \w-runs of the line that are one of the six words.
ComplexityWords ==
  [l \in LineIds |->
     LET runs == Runs(LINES[l], WordChars, TRUE)
     IN  Cardinality({i \in DOMAIN runs : runs[i] \in COMPLEXITY_WORDS})]

HasChar(ls, c) == \E i \in DOMAIN ls : \E k \in DOMAIN LINES[ls[i]] : LINES[ls[i]][k] = c

\* Segmenter._calculate_block_complexity on '\n'.join(ls)
_calculate_block_complexity(ls) ==
  SumOver(ComplexityWords, ls) + (IF HasChar(ls, "{") /\ HasChar(ls, "}") THEN 1 ELSE 0)

\* The first index j >= i of s whose character is outside C (Len(s)+1 if none).
SkipWhile(s, i, C) ==
  LET out == {j \in i..Len(s) : s[j] \notin C}
  IN  IF out = {} THEN Max2(Len(s) + 1, i) ELSE MinOf(out)

\* SECTION_PATTERN.match(s), re.IGNORECASE:
\* ^[#/\*]+\s*-+\s*SECTION:\s*([A-Z_]+)\s*-+.*$ ; the value is group(1).lower(),
\* or None when s does not match.  Consecutive pieces of the pattern have
\* disjoint first characters, so greedy matching decides it.
SECTION_PATTERN(s) ==
  LET t  == lower(s)
      p1 == SkipWhile(t, 1, {"#", "/", "*"})
      p2 == SkipWhile(t, p1, WS)
      p3 == SkipWhile(t, p2, {"-"})
      p4 == SkipWhile(t, p3, WS)
      p5 == p4 + 8
      p6 == SkipWhile(t, p5, WS)
      p7 == SkipWhile(t, p6, LowerLetters \cup {"_"})
      p8 == SkipWhile(t, p7, WS)
  IN  IF /\ p1 > 1
         /\ p3 > p2
         /\ p5 - 1 <= Len(t)
         /\ SubSeq(t, p4, p5 - 1) = <<"s","e","c","t","i","o","n",":">>
         /\ p7 > p6
         /\ p8 <= Len(t)
         /\ t[p8] = "-"
      THEN SubSeq(t, p6, p7 - 1)
      ELSE None

\* SECTION_PATTERN.match(line.strip()) per line.
SectionLang == [l \in LineIds |-> SECTION_PATTERN(strip(LINES[l]))]

\* line.strip().startswith('```'); re.match(r'^```(\w+)?', ...) matches on
\* exactly these lines.
IsFence == [l \in LineIds |-> startswith(strip(LINES[l]), <<BACKTICK,BACKTICK,BACKTICK>>)]

\* fence_match.group(1): the \w-run right after the fence, None if there is none.
FenceLang ==
  [l \in LineIds |->
     LET s == strip(LINES[l])
         e == SkipWhile(s, 4, WordChars)
     IN  IF IsFence[l] /\ e > 4 THEN SubSeq(s, 4, e - 1) ELSE None]

\* line.strip().split(' ')[0] if line.strip() else ''
FirstWord == [l \in LineIds |-> split_space_first(strip(LINES[l]))]

\* The is_start decision of _extract_toplevel_blocks.
IsStart ==
  [l \in LineIds |->
     LET first_word == FirstWord[l]
     IN  \/ first_word \in START_KEYWORDS
         \/ startswith(first_word, <<"#","!">>) \/ startswith(first_word, <<"<","?">>)
         \/ startswith(first_word, <<"{">>) \/ startswith(first_word, <<"[">>)
         \/ startswith(first_word, <<"<">>)
         \/ (endswith(first_word, <<":">>) /\ Len(first_word) > 2)]

\* next_line.startswith(' ') or next_line.startswith('\t')
StartsIndented ==
  [l \in LineIds |-> startswith(LINES[l], <<" ">>) \/ startswith(LINES[l], <<"\t">>)]

\* A new unindented top-level keyword line ends the current keyword block.
IsNewTopLevel == [l \in LineIds |-> ~StartsIndented[l] /\ FirstWord[l] \in START_KEYWORDS]

\* line.strip() and (indent >= 4 or line.startswith('\t')) in _extract_indented_blocks
IsIndentedCode ==
  [l \in LineIds |->
     LET indent == Len(LINES[l]) - Len(lstrip(LINES[l]))
     IN  ~IsBlank[l] /\ (indent >= 4 \/ startswith(LINES[l], <<"\t">>))]

\* ---------------------------------------------------------- CandidateBlock
\* lines[a:b] of Python, for the 1-based sequence ls.
Slice(ls, a, b) == SubSeq(ls, a + 1, b)

\* The line of index i (0-based, as in the code).
LineAt(ls, i) == ls[i + 1]

\* {range(a, b + 1)}
LineRange(a, b) == a..b

\* A block's content is '\n'.join of some lines of the text, stripped or not.
Content(ls, stripped) == [lines |-> ls, stripped |-> stripped]

\* The characters of a content string.
RECURSIVE CharsOf(_)
CharsOf(ls) == IF ls = <<>> THEN <<>> ELSE <<LINES[Head(ls)]>> \o CharsOf(Tail(ls))

ContentChars(c) == IF c.stripped THEN strip(join(CharsOf(c.lines))) ELSE join(CharsOf(c.lines))

\* bool(content): a stripped join is empty exactly when every line is blank;
\* an unstripped one when it is the join of no line or of one empty line.
ContentNonEmpty(c) ==
  IF c.stripped THEN ~AllBlank(c.lines) ELSE JoinedLen(c.lines) > 0

CandidateBlock(content, start_line, end_line, detection_method, confidence, language_hint) ==
  [content |-> content, start_line |-> start_line, end_line |-> end_line,
   detection_method |-> detection_method, confidence |-> confidence,
   language_hint |-> language_hint]

\* set(range(b.start_line, b.end_line + 1))
BlockLines(b) == LineRange(b.start_line, b.end_line)

RECURSIVE MarkAll(_, _)
MarkAll(marked, blocks) ==
  IF blocks = <<>> THEN marked ELSE MarkAll(marked \cup BlockLines(Head(blocks)), Tail(blocks))

\* ------------------------------------------- 1. _extract_delimited_blocks
RECURSIVE DelimitedLoop(_, _, _, _, _)
DelimitedLoop(lines, i, current_start, current_lang, blocks) ==
  IF i >= Len(lines)
  THEN IF current_start # -1
       THEN LET content == Content(Slice(lines, current_start + 1, Len(lines)), TRUE)
            IN  IF ContentNonEmpty(content)
                THEN Append(blocks, CandidateBlock(content, current_start + 1, Len(lines) - 1,
                                                   "delimiter", Rat(99, 100), current_lang))
                ELSE blocks
       ELSE blocks
  ELSE LET match == SectionLang[LineAt(lines, i)]
       IN  IF match # None
           THEN LET end_line == i - 1
                    content  == Content(Slice(lines, current_start + 1, end_line + 1), TRUE)
                    blocks2  ==
                      IF current_start # -1 /\ ContentNonEmpty(content)
                      THEN Append(blocks, CandidateBlock(content, current_start + 1, end_line,
                                                         "delimiter", Rat(99, 100), current_lang))
                      ELSE blocks
                IN  DelimitedLoop(lines, i + 1, i, match, blocks2)
           ELSE DelimitedLoop(lines, i + 1, current_start, current_lang, blocks)

_extract_delimited_blocks(lines) == DelimitedLoop(lines, 0, -1, None, <<>>)

\* -------------------------------------------- 2. _extract_markdown_blocks
RECURSIVE MarkdownLoop(_, _, _, _, _, _, _, _)
MarkdownLoop(lines, min_block_lines, i, in_block, block_start, block_lines, language_hint, blocks) ==
  IF i >= Len(lines) THEN blocks
  ELSE LET line == LineAt(lines, i)
       IN  IF IsFence[line] /\ ~in_block
           THEN MarkdownLoop(lines, min_block_lines, i + 1, TRUE, i, <<>>, FenceLang[line], blocks)
           ELSE IF IsFence[line] /\ in_block
           THEN LET blocks2 ==
                      IF Len(block_lines) >= min_block_lines
                      THEN Append(blocks, CandidateBlock(Content(block_lines, FALSE), block_start + 1,
                                                         i - 1, "markdown", Rat(95, 100), language_hint))
                      ELSE blocks
                IN  MarkdownLoop(lines, min_block_lines, i + 1, FALSE, block_start, <<>>, None, blocks2)
           ELSE IF in_block
           THEN MarkdownLoop(lines, min_block_lines, i + 1, in_block, block_start,
                             Append(block_lines, line), language_hint, blocks)
           ELSE MarkdownLoop(lines, min_block_lines, i + 1, in_block, block_start,
                             block_lines, language_hint, blocks)

_extract_markdown_blocks(lines, min_block_lines) ==
  MarkdownLoop(lines, min_block_lines, 0, FALSE, 0, <<>>, None, <<>>)

\* -------------------------------------------- 3. _extract_indented_blocks
RECURSIVE IndentedLoop(_, _, _, _, _, _, _)
IndentedLoop(lines, marked_lines, min_block_lines, i, current_block, block_start, blocks) ==
  IF i >= Len(lines) THEN blocks
  ELSE LET line == LineAt(lines, i)
       IN  IF i \in marked_lines
           THEN LET blocks2 ==
                      IF current_block # <<>> /\ Len(current_block) >= min_block_lines
                      THEN Append(blocks, CandidateBlock(Content(current_block, FALSE), block_start,
                                                         i - 1, "indentation", Rat(75, 100), None))
                      ELSE blocks
                IN  IndentedLoop(lines, marked_lines, min_block_lines, i + 1, <<>>, -1, blocks2)
           ELSE IF IsIndentedCode[line]
           THEN IndentedLoop(lines, marked_lines, min_block_lines, i + 1, Append(current_block, line),
                             IF current_block = <<>> THEN i ELSE block_start, blocks)
           ELSE LET blocks2 ==
                      IF /\ current_block # <<>>
                         /\ Len(current_block) >= min_block_lines
                         /\ RatGT(_calculate_technical_density(current_block), Rat(15, 100))
                      THEN Append(blocks, CandidateBlock(Content(current_block, FALSE), block_start,
                                                         i - 1, "indentation", Rat(85, 100), None))
                      ELSE blocks
                IN  IndentedLoop(lines, marked_lines, min_block_lines, i + 1, <<>>, -1, blocks2)

_extract_indented_blocks(lines, marked_lines, min_block_lines) ==
  IndentedLoop(lines, marked_lines, min_block_lines, 0, <<>>, -1, <<>>)

\* -------------------------------------------- 4. _extract_toplevel_blocks
max_gap == 2

\* An inner loop that walks over the lines earlier strategies have marked.
RECURSIVE ToplevelExpandOverMarked(_, _, _, _, _)
ToplevelExpandOverMarked(lines, marked_lines, j, gap_count, end) ==
  IF j >= Len(lines) THEN [j |-> j, end |-> end]
  ELSE IF IsBlank[LineAt(lines, j)]
  THEN IF gap_count + 1 > max_gap THEN [j |-> j, end |-> end]
       ELSE ToplevelExpandOverMarked(lines, marked_lines, j + 1, gap_count + 1, end)
  ELSE IF IsNewTopLevel[LineAt(lines, j)] THEN [j |-> j, end |-> end]
  ELSE ToplevelExpandOverMarked(lines, marked_lines, j + 1, 0, j)

\* The inner while loop: the index j it stops at and the last line kept.
RECURSIVE ToplevelExpand(_, _, _, _, _)
ToplevelExpand(lines, marked_lines, j, gap_count, end) ==
  IF j >= Len(lines) \/ j \in marked_lines THEN [j |-> j, end |-> end]
  ELSE IF IsBlank[LineAt(lines, j)]
  THEN IF gap_count + 1 > max_gap THEN [j |-> j, end |-> end]
       ELSE ToplevelExpand(lines, marked_lines, j + 1, gap_count + 1, end)
  ELSE IF IsNewTopLevel[LineAt(lines, j)] THEN [j |-> j, end |-> end]
  ELSE ToplevelExpand(lines, marked_lines, j + 1, 0, j)

RECURSIVE ToplevelLoop(_, _, _, _)
ToplevelLoop(lines, marked_lines, i, blocks) ==
  IF i >= Len(lines) THEN blocks
  ELSE IF i \in marked_lines THEN ToplevelLoop(lines, marked_lines, i + 1, blocks)
  ELSE IF IsStart[LineAt(lines, i)]
  THEN LET start   == i
           r       == ToplevelExpand(lines, marked_lines, i + 1, 0, i)
           content == Content(Slice(lines, start, r.end + 1), TRUE)
           blocks2 ==
             IF r.end - start >= 0 /\ ContentNonEmpty(content)
             THEN Append(blocks, CandidateBlock(content, start, r.end, "keyword", Rat(85, 100), None))
             ELSE blocks
       IN  ToplevelLoop(lines, marked_lines, r.j, blocks2)
  ELSE ToplevelLoop(lines, marked_lines, i + 1, blocks)

_extract_toplevel_blocks(lines, marked_lines) == ToplevelLoop(lines, marked_lines, 0, <<>>)

\* --------------------------------------------- 5. _extract_density_blocks
window_size == 5

\* The inner while loop: where the greedy extension of the window ends.
RECURSIVE DensityExtend(_, _, _)
DensityExtend(lines, marked_lines, end) ==
  IF end < Len(lines) /\ end \notin marked_lines
     /\ RatGT(_calculate_technical_density(<<LineAt(lines, end)>>), Rat(12, 100))
  THEN DensityExtend(lines, marked_lines, end + 1)
  ELSE end

\* A density confidence kept as a percentage: min(60, 100 * density).
DensityConfidencePercent(density) == RatMin(Rat(60, 1), Rat(100 * density.n, density.d))

\* A density block that is given full confidence.
DensityConfidenceCertain(density) == One

\* Line 332: the confidence of a density block, min(0.60, density).
DensityConfidence(density) == RatMin(Rat(60, 100), density)

RECURSIVE DensityLoop(_, _, _, _, _)
DensityLoop(lines, marked_lines, min_block_lines, i, blocks) ==
  IF ~(i < Len(lines) - window_size) THEN blocks
  ELSE IF i \in marked_lines THEN DensityLoop(lines, marked_lines, min_block_lines, i + 1, blocks)
  ELSE LET density == _calculate_technical_density(Slice(lines, i, i + window_size))
       IN  IF RatGT(density, Rat(15, 100))
           THEN LET start   == i
                    end     == DensityExtend(lines, marked_lines, i + window_size)
                    content == Slice(lines, start, end)
                    blocks2 ==
                      IF /\ end - start >= min_block_lines
                         /\ (RatGT(density, Rat(30, 100)) \/ _calculate_block_complexity(content) >= 3)
                      THEN Append(blocks, CandidateBlock(Content(content, FALSE), start, end - 1,
                                    "density", DensityConfidence(density), None))
                      ELSE blocks
                IN  DensityLoop(lines, marked_lines, min_block_lines, end, blocks2)
           ELSE DensityLoop(lines, marked_lines, min_block_lines, i + 1, blocks)

_extract_density_blocks(lines, marked_lines, min_block_lines) ==
  DensityLoop(lines, marked_lines, min_block_lines, 0, <<>>)

\* ------------------------------------------------- _deduplicate_blocks
\* sorted(blocks, key=confidence, reverse=True): Python's sort is stable, also
\* with reverse=True, so candidates of equal confidence keep their order.
\* An insertion that puts a candidate before those of equal confidence.
RECURSIVE InsertByConfidenceUnstable(_, _)
InsertByConfidenceUnstable(s, b) ==
  IF s = <<>> THEN <<b>>
  ELSE IF RatGE(b.confidence, Head(s).confidence) THEN <<b>> \o s
  ELSE <<Head(s)>> \o InsertByConfidenceUnstable(Tail(s), b)

RECURSIVE InsertByConfidence(_, _)
InsertByConfidence(s, b) ==
  IF s = <<>> THEN <<b>>
  ELSE IF RatGT(b.confidence, Head(s).confidence) THEN <<b>> \o s
  ELSE <<Head(s)>> \o InsertByConfidence(Tail(s), b)

\* A pass that takes the candidates in list order, unsorted.
SortByConfidenceUnsorted(blocks) == blocks

RECURSIVE SortByConfidenceDesc(_)
SortByConfidenceDesc(blocks) ==
  IF blocks = <<>> THEN <<>>
  ELSE InsertByConfidence(SortByConfidenceDesc(SubSeq(blocks, 1, Len(blocks) - 1)),
                          blocks[Len(blocks)])

\* sorted(kept, key=start_line), stable.
RECURSIVE InsertByStartLine(_, _)
InsertByStartLine(s, b) ==
  IF s = <<>> THEN <<b>>
  ELSE IF b.start_line < Head(s).start_line THEN <<b>> \o s
  ELSE <<Head(s)>> \o InsertByStartLine(Tail(s), b)

RECURSIVE SortByStartLine(_)
SortByStartLine(blocks) ==
  IF blocks = <<>> THEN <<>>
  ELSE InsertByStartLine(SortByStartLine(SubSeq(blocks, 1, Len(blocks) - 1)),
                         blocks[Len(blocks)])

\* A pass that cuts an overlapping block down to its first unclaimed line
\* instead of dropping it.
RECURSIVE KeepLoopTrim(_, _, _)
KeepLoopTrim(sorted_blocks, kept, used) ==
  IF sorted_blocks = <<>> THEN kept
  ELSE LET b       == Head(sorted_blocks)
           b_lines == BlockLines(b)
           free    == b_lines \ used
       IN  IF b_lines \cap used = {}
           THEN KeepLoopTrim(Tail(sorted_blocks), Append(kept, b), used \cup b_lines)
           ELSE IF free # {}
           THEN KeepLoopTrim(Tail(sorted_blocks),
                             Append(kept, [b EXCEPT !.start_line = MinOf(free),
                                                    !.end_line = MinOf(free)]),
                             used \cup {MinOf(free)})
           ELSE KeepLoopTrim(Tail(sorted_blocks), kept, used)

\* The greedy pass over sorted_blocks: kept and used after the loop.
RECURSIVE KeepLoop(_, _, _)
KeepLoop(sorted_blocks, kept, used) ==
  IF sorted_blocks = <<>> THEN kept
  ELSE LET b       == Head(sorted_blocks)
           b_lines == BlockLines(b)
       IN  IF b_lines \cap used = {}
           THEN KeepLoop(Tail(sorted_blocks), Append(kept, b), used \cup b_lines)
           ELSE KeepLoop(Tail(sorted_blocks), kept, used)

\* A dedup pass that forgets to record the lines of the blocks it keeps.
_deduplicate_blocks_unclaimed(blocks) == SortByStartLine(SortByConfidenceDesc(blocks))

_deduplicate_blocks(blocks) ==
  IF blocks = <<>> THEN <<>>
  ELSE SortByStartLine(KeepLoop(SortByConfidenceDesc(blocks), <<>>, {}))

\* ------------------------------------------------ FallbackExtractor.extract
\* A loop that stores the 0-based indices of enumerate(lines).
RECURSIVE FallbackLoopZeroBased(_, _, _, _)
FallbackLoopZeroBased(lines, i, current_block, blocks) ==
  IF i >= Len(lines)
  THEN IF current_block # <<>>
       THEN Append(blocks, [content |-> Content(current_block, FALSE),
                            start_line |-> Len(lines) - Len(current_block),
                            end_line |-> Len(lines) - 1,
                            confidence |-> Rat(6, 10),
                            extraction_method |-> "fallback_regex"])
       ELSE blocks
  ELSE LET line == LineAt(lines, i)
       IN  IF ~IsBlank[line]
           THEN FallbackLoopZeroBased(lines, i + 1, Append(current_block, line), blocks)
           ELSE IF current_block # <<>>
           THEN FallbackLoopZeroBased(lines, i + 1, <<>>,
                             Append(blocks, [content |-> Content(current_block, FALSE),
                                             start_line |-> i - Len(current_block),
                                             end_line |-> i - 1,
                                             confidence |-> Rat(6, 10),
                                             extraction_method |-> "fallback_regex"]))
           ELSE FallbackLoopZeroBased(lines, i + 1, current_block, blocks)

RECURSIVE FallbackLoop(_, _, _, _)
FallbackLoop(lines, i, current_block, blocks) ==
  IF i >= Len(lines)
  THEN IF current_block # <<>>
       THEN Append(blocks, [content |-> Content(current_block, FALSE),
                            start_line |-> Len(lines) - Len(current_block) + 1,
                            end_line |-> Len(lines),
                            confidence |-> Rat(6, 10),
                            extraction_method |-> "fallback_regex"])
       ELSE blocks
  ELSE LET line == LineAt(lines, i)
       IN  IF ~IsBlank[line]
           THEN FallbackLoop(lines, i + 1, Append(current_block, line), blocks)
           ELSE IF current_block # <<>>
           THEN FallbackLoop(lines, i + 1, <<>>,
                             Append(blocks, [content |-> Content(current_block, FALSE),
                                             start_line |-> i - Len(current_block) + 1,
                                             end_line |-> i,
                                             confidence |-> Rat(6, 10),
                                             extraction_method |-> "fallback_regex"]))
           ELSE FallbackLoop(lines, i + 1, current_block, blocks)

FallbackExtractor_extract(lines) == FallbackLoop(lines, 0, <<>>, <<>>)

\* ------------------------------------------------------ TreeSitterManager
SUPPORTED_LANGUAGES ==
  { <<"p","y","t","h","o","n">>, <<"j","a","v","a","s","c","r","i","p","t">>,
    <<"t","y","p","e","s","c","r","i","p","t">>, <<"j","a","v","a">>, <<"c">>, <<"c","p","p">>,
    <<"g","o">>, <<"r","u","s","t">>, <<"r","u","b","y">>, <<"p","h","p">>,
    <<"c","_","s","h","a","r","p">>, <<"s","w","i","f","t">>, <<"k","o","t","l","i","n">>,
    <<"b","a","s","h">> }

\* The attributes a TreeSitterManager instance has: its methods and the
\* fields __init__ sets.
TreeSitterManagerAttrs ==
  {"SUPPORTED_LANGUAGES", "load_language", "get_parser", "validate_syntax", "_extract_errors",
   "_count_nodes", "check_balanced_brackets", "grammar_dir", "languages", "parsers",
   "_initialized", "_instance"}

\* The attributes a Segmenter instance has.
SegmenterAttrs ==
  {"TECHNICAL_CHARS", "KEYWORDS", "SECTION_PATTERN", "min_block_lines", "ts_manager",
   "fallback_extractor", "segment", "_extract_toplevel_blocks", "_extract_delimited_blocks",
   "_extract_markdown_blocks", "_extract_indented_blocks", "_extract_density_blocks",
   "_calculate_technical_density", "_calculate_block_complexity", "_deduplicate_blocks"}


\* ------------------------------ TreeSitterManager.check_balanced_brackets
\* Line 209: pairs = {'(': ')', '[': ']', '{': '}'}.
pairs == [c \in {"(", "[", "{"} |-> CASE c = "(" -> ")" [] c = "[" -> "]" [] c = "{" -> "}"]
pairs_values == {pairs[c] : c \in DOMAIN pairs}

\* The loop of lines 211-218 without the comparison of the popped opener: any
\* closer pops any opener.
RECURSIVE BracketLoopAnyKind(_, _, _)
BracketLoopAnyKind(code, i, stack) ==
  IF i > Len(code) THEN Len(stack) = 0
  ELSE LET char == code[i]
       IN  IF char \in DOMAIN pairs
           THEN BracketLoopAnyKind(code, i + 1, Append(stack, char))
           ELSE IF char \in pairs_values
           THEN IF stack = <<>> THEN FALSE
                ELSE BracketLoopAnyKind(code, i + 1, SubSeq(stack, 1, Len(stack) - 1))
           ELSE BracketLoopAnyKind(code, i + 1, stack)

\* Lines 211-220: the loop from character i on with the stack so far, and the
\* final len(stack) == 0.
RECURSIVE BracketLoop(_, _, _)
BracketLoop(code, i, stack) ==
  IF i > Len(code) THEN Len(stack) = 0
  ELSE LET char == code[i]
       IN  IF char \in DOMAIN pairs
           THEN BracketLoop(code, i + 1, Append(stack, char))
           ELSE IF char \in pairs_values
           THEN IF stack = <<>> THEN FALSE
                ELSE IF pairs[stack[Len(stack)]] # char THEN FALSE
                ELSE BracketLoop(code, i + 1, SubSeq(stack, 1, Len(stack) - 1))
           ELSE BracketLoop(code, i + 1, stack)

check_balanced_brackets_any_kind(code) == BracketLoopAnyKind(code, 1, <<>>)

check_balanced_brackets(code) == BracketLoop(code, 1, <<>>)


\* --------------------------------------------- re: the patterns' matching
\* A pattern is a tree of nodes: a character set ("set", negated or not), a
\* word boundary ("b"), a sequence ("seq"), an alternation ("alt") and a
\* repetition ("rep") of the character set items[1] between min and max times
\* (max = -1: no upper limit), greedy or lazy.
ReNode(op, chars, neg, items, min, max, lazy) ==
  [op |-> op, chars |-> chars, neg |-> neg, items |-> items, min |-> min, max |-> max,
   lazy |-> lazy]

CharSet(S) == ReNode("set", S, FALSE, <<>>, 0, 0, FALSE)
NotCharSet(S) == ReNode("set", S, TRUE, <<>>, 0, 0, FALSE)
Boundary == ReNode("b", {}, FALSE, <<>>, 0, 0, FALSE)
Cat(items) == ReNode("seq", {}, FALSE, items, 0, 0, FALSE)
Alt(items) == ReNode("alt", {}, FALSE, items, 0, 0, FALSE)
Rep(r, min, max) == ReNode("rep", {}, FALSE, <<r>>, min, max, FALSE)
RepLazy(r, min, max) == ReNode("rep", {}, FALSE, <<r>>, min, max, TRUE)

UpperLetters == DOMAIN UpperToLower
Alnum == Digits \cup LowerLetters \cup UpperLetters

\* Both cases of a letter, for a pattern under (?i).
BothCases(c) ==
  IF c \in UpperLetters THEN {c, UpperToLower[c]}
  ELSE IF c \in LowerLetters THEN {c} \cup {u \in UpperLetters : UpperToLower[u] = c}
  ELSE {c}

\* A literal string, and a literal string under (?i).
Literal(s) == Cat([i \in DOMAIN s |-> CharSet({s[i]})])
LiteralI(s) == Cat([i \in DOMAIN s |-> CharSet(BothCases(s[i]))])

\* \b at position pos (0-based, between s[pos] and s[pos + 1]).
IsBoundary(s, pos) ==
  (pos > 0 /\ s[pos] \in WordChars) # (pos < Len(s) /\ s[pos + 1] \in WordChars)

\* How many of the characters after pos, at most max of them (max = -1: any
\* number), are in the set of the node r.
RunLength(r, s, pos, max) ==
  LET limit == IF max = -1 \/ max > Len(s) - pos THEN Len(s) - pos ELSE max
  IN  MaxOf({j \in 0..limit : \A i \in 1..j : (s[pos + i] \in r.chars) # r.neg})

\* The backtracking match of the nodes todo, one after the other, from pos:
\* the end of the first match in the engine's order of preference, or -1.  A
\* repetition repeats one character set: greedy, it takes the longest run
\* after which the rest matches; lazy, the shortest.
RECURSIVE ReMatch(_, _, _)
ReMatch(todo, s, pos) ==
  IF Len(todo) = 0 THEN pos
  ELSE LET r    == Head(todo)
           rest == Tail(todo)
       IN  CASE r.op = "set" ->
                  IF pos < Len(s) /\ ((s[pos + 1] \in r.chars) # r.neg)
                  THEN ReMatch(rest, s, pos + 1) ELSE -1
             [] r.op = "b" ->
                  IF IsBoundary(s, pos) THEN ReMatch(rest, s, pos) ELSE -1
             [] r.op = "seq" -> ReMatch(r.items \o rest, s, pos)
             [] r.op = "alt" ->
                  IF Len(r.items) = 0 THEN -1
                  ELSE LET a == ReMatch(<<Head(r.items)>> \o rest, s, pos)
                       IN  IF a # -1 THEN a
                           ELSE ReMatch(<<[r EXCEPT !.items = Tail(r.items)]>> \o rest, s, pos)
             [] r.op = "rep" ->
                  LET run == RunLength(r.items[1], s, pos, r.max)
                      ok  == {j \in r.min..run : ReMatch(rest, s, pos + j) # -1}
                  IN  IF ok = {} THEN -1
                      ELSE ReMatch(rest, s, pos + (IF r.lazy THEN MinOf(ok) ELSE MaxOf(ok)))

\* re.finditer(pattern, s) from position pos on: the spans [start, end) of the
\* matches, leftmost first, none overlapping.  No pattern of the table matches
\* the empty string.
RECURSIVE finditer_from(_, _, _)
finditer_from(pattern, s, pos) ==
  LET starts == {p \in pos..Len(s) : ReMatch(<<pattern>>, s, p) # -1}
  IN  IF starts = {} THEN <<>>
      ELSE LET start == MinOf(starts)
               end   == ReMatch(<<pattern>>, s, start)
           IN  <<[start |-> start, end |-> end]>>
                 \o finditer_from(pattern, s, IF end > start THEN end ELSE start + 1)

finditer(pattern, s) == finditer_from(pattern, s, 0)

\* re.search(pattern, s) is not None.
search(pattern, s) == \E pos \in 0..Len(s) : ReMatch(<<pattern>>, s, pos) # -1

\* ------------------------------------------------ SecretScanner.PATTERNS
Str_AKIA == <<"A","K","I","A">>
Str_AIza == <<"A","I","z","a">>
Str_xox == <<"x","o","x">>
Str_dashes == <<"-","-","-","-","-">>
Str_BEGIN == <<"B","E","G","I","N">>
Str_PRIVATE == <<"P","R","I","V","A","T","E">>
Str_KEY == <<"K","E","Y">>
Str_sk_live == <<"s","k","_","l","i","v","e","_">>
Str_gh == <<"g","h">>
Str_scheme == <<":","/","/">>
PasswordWords ==
  << <<"p","a","s","s","w","o","r","d">>, <<"p","a","s","s","w","d">>, <<"p","w","d">>,
     <<"s","e","c","r","e","t">>, <<"a","u","t","h","_","t","o","k","e","n">>,
     <<"a","p","i","_","k","e","y">>, <<"b","e","a","r","e","r">> >>
DatabaseWords ==
  << <<"m","y","s","q","l">>, <<"p","o","s","t","g","r","e","s">>,
     <<"m","o","n","g","o","d","b">>, <<"r","e","d","i","s">> >>

Quotes == {"\"", "'"}
AnyChar == NotCharSet({"\n"})

\* Lines 11-21.  In GOOGLE_API_KEY the class [0-9A-Za-z\\-_] holds an escaped
\* backslash and the range from it to "_" (the characters \ ] ^ _), not "-".
PatternNames ==
  <<"AWS_ACCESS_KEY", "AWS_SECRET_KEY", "GOOGLE_API_KEY", "SLACK_TOKEN", "PRIVATE_KEY",
    "GENERIC_PASSWORD", "DB_CONNECTION", "STRIPE_KEY", "GITHUB_TOKEN">>

PATTERNS ==
  [AWS_ACCESS_KEY |->
     Cat(<<Boundary, Literal(Str_AKIA), Rep(CharSet(Digits \cup UpperLetters), 16, 16),
           Boundary>>),
   AWS_SECRET_KEY |->
     Cat(<<Boundary, Rep(CharSet(Alnum \cup {"/", "+"}), 40, 40), Boundary>>),
   GOOGLE_API_KEY |->
     Cat(<<Boundary, Literal(Str_AIza),
           Rep(CharSet(Alnum \cup {"\\", "]", "^", "_"}), 35, 35), Boundary>>),
   SLACK_TOKEN |->
     Cat(<<Literal(Str_xox), CharSet({"b", "a", "p", "r", "s"}), CharSet({"-"}),
           Rep(CharSet(Alnum), 10, 48)>>),
   PRIVATE_KEY |->
     Cat(<<Literal(Str_dashes), Literal(Str_BEGIN), Rep(CharSet(WS), 1, -1),
           Rep(CharSet(UpperLetters \cup WS), 1, -1), Rep(CharSet(WS), 1, -1),
           Literal(Str_PRIVATE), Rep(CharSet(WS), 1, -1), Literal(Str_KEY),
           Literal(Str_dashes)>>),
   GENERIC_PASSWORD |->
     Cat(<<Alt([i \in DOMAIN PasswordWords |-> LiteralI(PasswordWords[i])]),
           Rep(CharSet(WS), 0, -1), CharSet({":", "="}), Rep(CharSet(WS), 0, -1),
           CharSet(Quotes), Rep(NotCharSet(Quotes), 6, -1), CharSet(Quotes)>>),
   DB_CONNECTION |->
     Cat(<<Alt([i \in DOMAIN DatabaseWords |-> LiteralI(DatabaseWords[i])]),
           RepLazy(AnyChar, 0, -1), Literal(Str_scheme), RepLazy(AnyChar, 0, -1),
           CharSet({":"}), RepLazy(AnyChar, 0, -1), CharSet({"@"})>>),
   STRIPE_KEY |->
     Cat(<<Boundary, Literal(Str_sk_live), Rep(CharSet(Alnum), 24, 24), Boundary>>),
   GITHUB_TOKEN |->
     Cat(<<Boundary, Literal(Str_gh), CharSet({"p", "o", "u", "s", "r"}), CharSet({"_"}),
           Rep(CharSet(Alnum), 36, 36), Boundary>>)]


\* ------------------------------------------------------- SecretScanner
\* The lines contents are made of.
SECRET_LINES ==
  [E |-> <<>>,
   A |-> <<"A","K","I","A","I","O","S","F","O","D","N","N","7","E","X","A","M","P","L","E">>,
   T |-> <<"t","h","e"," ","a","c","c","e","s","s"," ","k","e","y"," ","o","f"," ","t","h","e"," ","d","e","p","l","o","y"," ","u","s","e","r"," ","i","s"," ","A","K","I","A","I","O","S","F","O","D","N","N","7","E","X","A","M","P","L","E">>,
   W |-> <<" "," "," "," ","p","a","s","s","w","o","r","d"," ","="," ","\"","h","u","n","t","e","r","2","s","e","c","r","e","t","\"">>,
   Q |-> <<"p","a","s","s","w","o","r","d"," ","=">>,
   V |-> <<"\"","h","u","n","t","e","r","2","s","e","c","r","e","t","\"">>,
   U |-> <<"p","o","s","t","g","r","e","s",":","/","/","u","s","e","r",":","p","a","s","s","@","h","o","s","t","/","d","b">>,
   K |-> <<"-","-","-","-","-","B","E","G","I","N"," ","R","S","A"," ","P","R","I","V","A","T","E"," ","K","E","Y","-","-","-","-","-">>]
SecretLineIds == DOMAIN SECRET_LINES

\* A content is pad newline characters followed by lines joined by "\n".
SecretChars(ls) == [k \in DOMAIN ls |-> SECRET_LINES[ls[k]]]

\* len(content).
ContentLen(content) == content.pad + Len(join(SecretChars(content.lines)))

\* The characters of the content the patterns are searched in.  No pattern can
\* match a newline before its first other character, so of the leading
\* newlines one is kept.
ContentText(content) ==
  (IF content.pad > 0 THEN <<"\n">> ELSE <<>>) \o join(SecretChars(content.lines))

\* The lines that contents of several lines are made of: a key, the two
\* halves of an assignment that \s* joins across a line break, an empty line.
SeveralLineIds == {"E", "A", "Q", "V"}

\* The contents' lines: any one line, or up to MaxScanLines of SeveralLineIds.
SecretTexts ==
  [1..1 -> SecretLineIds] \cup UNION {[1..k -> SeveralLineIds] : k \in 2..MaxScanLines}

\* The function f with its values computed once.
Table(f) == f @@ <<>>

\* Per text, without and with a leading newline, the names of the patterns
\* re.search finds in it.
PatternsFound ==
  Table([lead \in BOOLEAN |->
     Table([ls \in SecretTexts |->
        LET chars == (IF lead THEN <<"\n">> ELSE <<>>) \o join(SecretChars(ls))
        IN  {PatternNames[k] : k \in {j \in DOMAIN PatternNames :
                                        search(PATTERNS[PatternNames[j]], chars)}}])])

\* any(re.search(pattern, content) for pattern in PATTERNS.values()).
AnyPatternFound(content) == PatternsFound[content.pad > 0][content.lines] # {}

\* Line 26 with the limit applied to a content of exactly 100000 characters too.
has_secrets_limit_exclusive(content) ==
  IF ContentLen(content) = 0 \/ ContentLen(content) >= 100000 THEN FALSE
  ELSE AnyPatternFound(content)

\* Lines 23-32.
has_secrets(content) ==
  IF ContentLen(content) = 0 \/ ContentLen(content) > 100000 THEN FALSE
  ELSE AnyPatternFound(content)

\* Lines 34-41: the types found, in no particular order (list(set(...))).
get_secret_types(content) == PatternsFound[content.pad > 0][content.lines]

\* batch_processor.py line 135: ",".join(secret_types) if secret_types else
\* None.  The joined names are kept as the set they name, None is <<>>.
secret_str(secret_types) == IF secret_types # {} THEN <<secret_types>> ELSE <<>>

\* Lines 133-135 with get_secret_types called whatever has_secrets said.
SecretFieldsUnconditional(has, types) ==
  [has_secrets |-> has, secret_type |-> secret_str(types)]

\* batch_processor.py lines 133-135: has is what has_secrets returned, types
\* what get_secret_types returns if it is called.
SecretFields(has, types) ==
  LET secret_types == IF has THEN types ELSE {}
  IN  [has_secrets |-> has, secret_type |-> secret_str(secret_types)]

\* Line 59: line.strip()[:50] + "...".
Snippet(line) == SubSeq(strip(line), 1, MinOf({50, Len(strip(line))})) \o <<".", ".", ".">>

\* Lines 50-60 for one line: the findings of every pattern, in the order of
\* the table, with the 1-based line number.
RECURSIVE LineFindings(_, _, _)
LineFindings(line, number, k) ==
  IF k > Len(PatternNames) THEN <<>>
  ELSE LET matches == finditer(PATTERNS[PatternNames[k]], line)
       IN  [j \in DOMAIN matches |->
              [type |-> PatternNames[k], line |-> number,
               match_start |-> matches[j].start, match_end |-> matches[j].end,
               snippet |-> Snippet(line)]]
             \o LineFindings(line, number, k + 1)

\* Per line of the alphabet, its findings as line 0.
FindingsOfLine == Table([l \in SecretLineIds |-> LineFindings(SECRET_LINES[l], 0, 1)])

\* Lines 43-61.  The pad empty lines before the first line have no finding.
RECURSIVE ScanLines(_, _)
ScanLines(content, i) ==
  IF i > Len(content.lines) THEN <<>>
  ELSE LET found == FindingsOfLine[content.lines[i]]
       IN  [j \in DOMAIN found |-> [found[j] EXCEPT !.line = content.pad + i]]
             \o ScanLines(content, i + 1)

scan(content) == ScanLines(content, 1)

\* ------------------------------------------------------------------- state
VARIABLES
  min_block_lines,   \* Segmenter.min_block_lines
  text,              \* the lines of the text argument of the segment call
  language,          \* the language argument of the segment call
  outcome,           \* what the last segment call returned or raised
  pc,                \* where the caller is
  blocks_in,         \* the argument of a _deduplicate_blocks call
  blocks_out,        \* what that call returned
  parsers,           \* TreeSitterManager.parsers (the languages cached)
  languages,         \* TreeSitterManager.languages (the languages cached)
  grammar_files,     \* the languages whose grammar artifact is on disk
  probe_first,       \* the outcome of the first call on the probe arguments
  probe_calls,       \* how many calls on the probe arguments were made (capped)
  cls_instance,      \* TreeSitterManager._instance: 0 is None, else an instance id
  instances,         \* the TreeSitterManager objects made so far, by id
  threads,           \* each thread: where it is in its call, its locals, its result
  loads,             \* per language, how many Language objects were made
  builds,            \* per language, how many Parser objects were made
  grammar_dir,       \* the languages whose <language>.so is in grammar_dir
  returned_parsers,  \* per language, the parser objects get_parser has returned
  bracket_code,      \* the code argument of check_balanced_brackets
  bracket_ret,       \* what check_balanced_brackets returned: <<>> before the call
  content,           \* the content argument of the SecretScanner methods
  has_secrets_ret,   \* what has_secrets returned: <<>> before the call
  scan_ret,          \* what scan returned, in a 1-tuple: <<>> before the call
  secret_types_ret,  \* what get_secret_types returned, in a 1-tuple
  secret_fields,     \* has_secrets and secret_type of a block with this content, in a 1-tuple
  file_ids,          \* the file_ids argument of process_batch
  segmented,         \* per file type and text, what the segment call gives
  batch_pc,          \* where process_batch is: not called, gathering, returned
  batch_status,      \* BatchProcessor.batch_status[batch_id]
  tasks,             \* the _process_single_file coroutines, in the order of file_ids
  db_blocks,         \* the ExtractedBlock rows added to the session and not rolled back
  extract_text,      \* the normalized content of the files extract_file reads
  extract_calls,     \* the extract_file requests: file id, position, response
  extract_rows       \* the committed extracted_blocks rows, in id order

\* The variables of the segmenter and of its callers.
segVars ==
  <<min_block_lines, text, language, outcome, pc, blocks_in, blocks_out,
    parsers, languages, grammar_files, probe_first, probe_calls>>

\* The variables of the TreeSitterManager seen object by object.
mgrVars ==
  <<cls_instance, instances, threads, loads, builds, grammar_dir, returned_parsers>>

bracketVars == <<bracket_code, bracket_ret>>

scanVars == <<content, has_secrets_ret, scan_ret, secret_types_ret, secret_fields>>

batchVars == <<file_ids, segmented, batch_pc, batch_status, tasks, db_blocks>>

extractVars == <<extract_text, extract_calls, extract_rows>>

\* What the specifications of one component leave alone.
notMgrVars == <<segVars, bracketVars, scanVars, batchVars, extractVars>>
notBracketVars == <<segVars, mgrVars, scanVars, batchVars, extractVars>>
notScanVars == <<segVars, mgrVars, bracketVars, batchVars, extractVars>>
notBatchVars == <<segVars, mgrVars, bracketVars, scanVars, extractVars>>
notExtractVars == <<segVars, mgrVars, bracketVars, scanVars, batchVars>>

\* The variables the segmenter specifications leave alone.
laterVars == <<mgrVars, bracketVars, scanVars, batchVars, extractVars>>

vars == <<segVars, laterVars>>

\* No TreeSitterManager was made and no thread runs.
MgrIdle ==
  /\ cls_instance = 0
  /\ instances = <<>>
  /\ threads = <<>>
  /\ loads = <<>>
  /\ builds = <<>>
  /\ grammar_dir = {}
  /\ returned_parsers = <<>>

BracketIdle ==
  /\ bracket_code = <<>>
  /\ bracket_ret = <<>>

ScanIdle ==
  /\ content = [pad |-> 0, lines |-> <<>>]
  /\ has_secrets_ret = <<>>
  /\ scan_ret = <<>>
  /\ secret_types_ret = <<>>
  /\ secret_fields = <<>>

BatchIdle ==
  /\ file_ids = <<>>
  /\ segmented = <<>>
  /\ batch_pc = "none"
  /\ batch_status = <<>>
  /\ tasks = <<>>
  /\ db_blocks = {}

ExtractIdle ==
  /\ extract_text = <<>>
  /\ extract_calls = <<>>
  /\ extract_rows = <<>>

LaterIdle == MgrIdle /\ BracketIdle /\ ScanIdle /\ BatchIdle /\ ExtractIdle

\* No Segmenter is in use.
SegIdle ==
  /\ min_block_lines = 3
  /\ text = <<>>
  /\ language = <<"None">>
  /\ outcome = [kind |-> "none", exc |-> "", blocks |-> <<>>]
  /\ pc = "idle"
  /\ blocks_in = <<>>
  /\ blocks_out = <<>>
  /\ parsers = {}
  /\ languages = {}
  /\ grammar_files = {}
  /\ probe_first = [kind |-> "none", exc |-> "", blocks |-> <<>>]
  /\ probe_calls = 0

NotMgrIdle == SegIdle /\ BracketIdle /\ ScanIdle /\ BatchIdle /\ ExtractIdle
NotBracketIdle == SegIdle /\ MgrIdle /\ ScanIdle /\ BatchIdle /\ ExtractIdle
NotScanIdle == SegIdle /\ MgrIdle /\ BracketIdle /\ BatchIdle /\ ExtractIdle
NotBatchIdle == SegIdle /\ MgrIdle /\ BracketIdle /\ ScanIdle /\ ExtractIdle
NotExtractIdle == SegIdle /\ MgrIdle /\ BracketIdle /\ ScanIdle /\ BatchIdle

\* -------------------------------------------------------- Segmenter.segment
\* The outcome of a call: the list returned, or the exception that leaves it.
Return(blocks) == [kind |-> "return", exc |-> "", blocks |-> blocks]
Raise(exc) == [kind |-> "raise", exc |-> exc, blocks |-> <<>>]

\* bool(language): None and '' are false.
\* A truthiness test that also consults the parser cache.
TruthyUnlessCached(lang) == lang # None /\ lang # <<>> /\ lang \notin parsers

Truthy(lang) == lang # None /\ lang # <<>>

\* Lines 94-99: a markdown block joins the candidates only if none of its
\* lines is marked, and then marks its lines.
RECURSIVE MarkdownAdmit(_, _, _)
MarkdownAdmit(markdown_blocks, candidates, marked_lines) ==
  IF markdown_blocks = <<>> THEN [candidates |-> candidates, marked_lines |-> marked_lines]
  ELSE LET block == Head(markdown_blocks)
       IN  IF BlockLines(block) \cap marked_lines = {}
           THEN MarkdownAdmit(Tail(markdown_blocks), Append(candidates, block),
                              marked_lines \cup BlockLines(block))
           ELSE MarkdownAdmit(Tail(markdown_blocks), candidates, marked_lines)

\* Lines 86-115: the candidates of strategies 1-5, in the order they are added.
StrategyCandidates(lines, min_lines) ==
  LET delimited_blocks == _extract_delimited_blocks(lines)
      marked1          == MarkAll({}, delimited_blocks)
      md               == MarkdownAdmit(_extract_markdown_blocks(lines, min_lines),
                                        delimited_blocks, marked1)
      indent_blocks    == _extract_indented_blocks(lines, md.marked_lines, min_lines)
      marked3          == MarkAll(md.marked_lines, indent_blocks)
      keyword_blocks   == _extract_toplevel_blocks(lines, marked3)
      marked4          == MarkAll(marked3, keyword_blocks)
      density_blocks   == _extract_density_blocks(lines, marked4, min_lines)
  IN  md.candidates \o indent_blocks \o keyword_blocks \o density_blocks

\* Lines 117-136.  Line 123 calls self._calculate_density, which Segmenter does
\* not define (the method is _calculate_technical_density): the lookup raises
\* AttributeError, and nothing in segment catches it.
WholeFileFallback(lines, min_lines, candidates) ==
  IF Len(candidates) = 0 /\ Len(lines) >= min_lines
  THEN CASE "_calculate_density" \notin SegmenterAttrs -> Raise("AttributeError")
  ELSE Return(_deduplicate_blocks(candidates))

\* Lines 70-84: the fallback extractor for a hint outside SUPPORTED_LANGUAGES.
FallbackCandidates(lines, lang) ==
  LET fallback_blocks == FallbackExtractor_extract(lines)
  IN  [k \in DOMAIN fallback_blocks |->
         CandidateBlock(fallback_blocks[k].content, fallback_blocks[k].start_line,
                        fallback_blocks[k].end_line, fallback_blocks[k].extraction_method,
                        fallback_blocks[k].confidence, lang)]

\* Lines 44-136.  Line 48 calls self.ts_manager.get_language_from_extension,
\* which TreeSitterManager does not define: with a truthy language the lookup
\* raises AttributeError outside any try block.  (Line 55's ts_manager.parse is
\* not defined either, but that lookup sits inside try/except Exception.)
segment(lines, lang, min_lines) ==
  IF Truthy(lang) /\ "get_language_from_extension" \notin TreeSitterManagerAttrs
  THEN Raise("AttributeError")
  ELSE IF Truthy(lang) /\ lang \notin SUPPORTED_LANGUAGES
          /\ FallbackCandidates(lines, lang) # <<>>
  THEN Return(_deduplicate_blocks(FallbackCandidates(lines, lang)))
  ELSE WholeFileFallback(lines, min_lines, StrategyCandidates(lines, min_lines))

\* ------------------------------------------------------------------ inputs
\* The non-empty texts of at most n lines over the line ids in ids.
TextsUpTo(ids, n) == UNION {[1..k -> ids] : k \in 1..n}

GeneralIds == {"B", "P", "Fp", "D", "I", "X", "S"}
DenseIds == {"X", "Fc", "D"}

\* Scenario A: prose, a ```python fence around two lines, prose.
ScenarioA == <<"P", "Fp", "D", "R", "Fc", "P">>
\* Scenario B: "def foo():\n    return 1\n".
ScenarioB == <<"D", "R", "B">>
\* Ten lines of plain-English prose.
Prose10 == [k \in 1..10 |-> "P"]

Texts ==
  TextsUpTo(GeneralIds, MaxLines) \cup TextsUpTo(DenseIds, MaxDenseLines)
    \cup {ScenarioA, ScenarioB, Prose10}

python == <<"p","y","t","h","o","n">>
cobol == <<"c","o","b","o","l">>

\* Language hints: none, a supported language, an unsupported one.
Hints == {None, python, cobol}

\* Segmenter(min_block_lines): the default 3, and 2.
MinBlockLinesChoices == {2, 3}

NoOutcome == [kind |-> "none", exc |-> "", blocks |-> <<>>]

\* Segmenter.__init__ and TreeSitterManager.__init__
Constructed(m) ==
  /\ min_block_lines = m
  /\ parsers = {}
  /\ languages = {}

\* ------------------------------------------ Spec: one segment call per text
Init ==
  /\ \E m \in MinBlockLinesChoices : Constructed(m)
  /\ text \in Texts
  /\ language = None
  /\ outcome = NoOutcome
  /\ pc = "ready"
  /\ blocks_in = <<>>
  /\ blocks_out = <<>>
  /\ grammar_files = {}
  /\ probe_first = NoOutcome
  /\ probe_calls = 0
  /\ LaterIdle

\* segment(text) without a language hint.
SegmentNoHint ==
  /\ pc = "ready"
  /\ language' = None
  /\ outcome' = segment(text, None, min_block_lines)
  /\ pc' = "done"
  /\ UNCHANGED <<min_block_lines, text, blocks_in, blocks_out, parsers, languages,
                 grammar_files, probe_first, probe_calls>>
  /\ UNCHANGED laterVars

\* segment(text, language) with a language hint.
SegmentWithHint ==
  /\ pc = "ready"
  /\ \E h \in Hints \ {None} :
       /\ language' = h
       /\ outcome' = segment(text, h, min_block_lines)
  /\ pc' = "done"
  /\ UNCHANGED <<min_block_lines, text, blocks_in, blocks_out, parsers, languages,
                 grammar_files, probe_first, probe_calls>>
  /\ UNCHANGED laterVars

Next == SegmentNoHint \/ SegmentWithHint

Spec == Init /\ [][Next]_vars

\* ------------------------------------------------------------ shorthands
Returned == pc = "done" /\ outcome.kind = "return"
Overlap(a, b) == BlockLines(a) \cap BlockLines(b) # {}
Range(s) == {s[i] : i \in DOMAIN s}

\* C1: any two distinct blocks returned by one segment call have disjoint
\* line ranges [start_line, end_line].
C1_NonOverlap ==
  Returned =>
    \A i, j \in DOMAIN outcome.blocks :
      i # j => ~Overlap(outcome.blocks[i], outcome.blocks[j])

\* A call returned two or more blocks after the dedup pass dropped a candidate
\* that overlapped another one.
C1_Witness ==
  /\ Returned
  /\ ~Truthy(language)
  /\ Len(outcome.blocks) >= 2
  /\ LET c == StrategyCandidates(text, min_block_lines)
     IN  \E i, j \in DOMAIN c : i # j /\ Overlap(c[i], c[j])

\* The lines start_line..end_line of the text, read as 1-indexed inclusive
\* line numbers.
LinesOneIndexed(b) == SubSeq(text, b.start_line, b.end_line)

\* C4: every returned block has 1-indexed inclusive line numbers with
\* 1 <= start_line <= end_line <= number of lines, and its content is the text
\* of exactly those lines up to trimming of surrounding whitespace.
C4_OneIndexedLines ==
  Returned =>
    \A k \in DOMAIN outcome.blocks :
      LET b == outcome.blocks[k]
      IN  /\ 1 <= b.start_line
          /\ b.start_line <= b.end_line
          /\ b.end_line <= Len(text)
          /\ strip(ContentChars(b.content)) = strip(join(CharsOf(LinesOneIndexed(b))))

ScenarioABlockContent == join(<<LINES["D"], LINES["R"]>>)

\* C5: for scenario A and default settings segment returns exactly one block:
\* method markdown, language_hint python, confidence 0.95, content the two
\* lines between the fences.
C5_ScenarioA ==
  (pc = "done" /\ text = ScenarioA /\ language = None /\ min_block_lines = 3) =>
    /\ outcome.kind = "return"
    /\ Len(outcome.blocks) = 1
    /\ outcome.blocks[1].detection_method = "markdown"
    /\ outcome.blocks[1].language_hint = python
    /\ outcome.blocks[1].confidence = Rat(95, 100)
    /\ ContentChars(outcome.blocks[1].content) = ScenarioABlockContent

\* C6: for ten lines of plain prose and no language hint segment returns
\* normally, with an empty candidate list.
C6_ProseYieldsNothing ==
  (pc = "done" /\ text = Prose10 /\ language = None) => outcome = Return(<<>>)

\* The conditions of the whole-file fallback.
WholeFileDue ==
  /\ StrategyCandidates(text, min_block_lines) = <<>>
  /\ Len(text) >= min_block_lines
  /\ RatGT(_calculate_technical_density(text), Rat(5, 100))

WholeFileBlock ==
  CandidateBlock(Content(text, FALSE), 1, Len(text), "fallback_whole_file", Rat(70, 100), None)

\* C7: when strategies 1-5 produce nothing, the text has at least
\* min_block_lines lines and its density exceeds 0.05, segment returns exactly
\* the whole-file block (lines 1..line count, confidence 0.70); in every other
\* case it returns no fallback_whole_file block.
C7_WholeFileFallback ==
  (pc = "done" /\ language = None) =>
    IF WholeFileDue
    THEN outcome = Return(<<WholeFileBlock>>)
    ELSE \A k \in DOMAIN outcome.blocks :
           outcome.blocks[k].detection_method # "fallback_whole_file"

\* C8: with a hint that resolves to a language without grammar, the result is
\* the FallbackExtractor's blocks alone, each with confidence 0.6 and method
\* fallback_regex; strategies 1-6 supply the result only if there are none.
C8_UnsupportedUsesFallback ==
  (pc = "done" /\ language = cobol) =>
    /\ outcome.kind = "return"
    /\ FallbackExtractor_extract(text) # <<>> =>
         /\ Len(outcome.blocks) = Len(FallbackExtractor_extract(text))
         /\ \A k \in DOMAIN outcome.blocks :
              /\ outcome.blocks[k].confidence = Rat(6, 10)
              /\ outcome.blocks[k].detection_method = "fallback_regex"

\* C9: with a hint whose grammar can be supplied, segment returns normally and
\* returns what segment returns without a hint.
C9_SupportedHintChangesNothing ==
  (pc = "done" /\ language = python) =>
    /\ outcome.kind = "return"
    /\ outcome = segment(text, None, min_block_lines)

\* ------------------------- SpecDedup: _deduplicate_blocks on any candidate list
DedupLineNos == {0, 1, 2}

\* Method and confidence of the candidates a strategy can emit.
DedupKinds ==
  { <<"delimiter", Rat(99, 100)>>, <<"indentation", Rat(85, 100)>>,
    <<"keyword", Rat(85, 100)>>, <<"density", Rat(60, 100)>> }

DedupRanges == {r \in DedupLineNos \X DedupLineNos : r[1] <= r[2]}

DedupCandidates ==
  { CandidateBlock(Content(<<>>, FALSE), r[1], r[2], k[1], k[2], None) :
      r \in DedupRanges, k \in DedupKinds }

InitDedup ==
  /\ Constructed(3)
  /\ text = <<"B">>
  /\ language = None
  /\ outcome = NoOutcome
  /\ pc = "collect"
  /\ blocks_in = <<>>
  /\ blocks_out = <<>>
  /\ grammar_files = {}
  /\ probe_first = NoOutcome
  /\ probe_calls = 0
  /\ LaterIdle

\* The caller appends one more candidate to the list.
AddCandidate ==
  /\ pc = "collect"
  /\ Len(blocks_in) < MaxCands
  /\ \E c \in DedupCandidates : blocks_in' = Append(blocks_in, c)
  /\ UNCHANGED <<min_block_lines, text, language, outcome, pc, blocks_out, parsers,
                 languages, grammar_files, probe_first, probe_calls>>
  /\ UNCHANGED laterVars

\* self._deduplicate_blocks(blocks_in)
Deduplicate ==
  /\ pc = "collect"
  /\ blocks_out' = _deduplicate_blocks(blocks_in)
  /\ pc' = "deduped"
  /\ UNCHANGED <<min_block_lines, text, language, outcome, blocks_in, parsers,
                 languages, grammar_files, probe_first, probe_calls>>
  /\ UNCHANGED laterVars

NextDedup == AddCandidate \/ Deduplicate

SpecDedup == InitDedup /\ [][NextDedup]_vars

\* Of two candidates of the list, the one the sorted pass reaches first.
Before(i, j) ==
  \/ RatGT(blocks_in[i].confidence, blocks_in[j].confidence)
  \/ (blocks_in[i].confidence = blocks_in[j].confidence /\ i < j)

FirstOccurrence(i) == \A k \in DOMAIN blocks_in : k < i => blocks_in[k] # blocks_in[i]

Kept(b) == b \in Range(blocks_out)

\* C2: the dedup pass takes the candidates in descending confidence order and
\* keeps one exactly when it shares no line with a candidate kept before it;
\* every dropped candidate overlaps a kept one of at least its confidence, and
\* the kept candidates are returned sorted by start_line ascending.
C2_GreedyDedup ==
  pc = "deduped" =>
    /\ \A i \in DOMAIN blocks_in :
         FirstOccurrence(i) =>
           (Kept(blocks_in[i]) <=>
              ~\E k \in DOMAIN blocks_in :
                 /\ Kept(blocks_in[k])
                 /\ blocks_in[k] # blocks_in[i]
                 /\ Before(k, i)
                 /\ Overlap(blocks_in[k], blocks_in[i]))
    /\ \A i \in DOMAIN blocks_in :
         ~Kept(blocks_in[i]) =>
           \E k \in DOMAIN blocks_out :
             /\ Overlap(blocks_out[k], blocks_in[i])
             /\ RatGE(blocks_out[k].confidence, blocks_in[i].confidence)
    /\ Range(blocks_out) \subseteq Range(blocks_in)
    /\ \A i, j \in DOMAIN blocks_out :
         i < j => blocks_out[i].start_line <= blocks_out[j].start_line

\* A list of which the pass dropped a candidate and kept two.
C2_Witness ==
  /\ pc = "deduped"
  /\ Len(blocks_out) >= 2
  /\ \E i \in DOMAIN blocks_in : ~Kept(blocks_in[i])
  /\ \E i, j \in DOMAIN blocks_in : i < j /\ blocks_in[i].start_line > blocks_in[j].start_line

\* How often block b occurs in the list s.
Occurrences(s, b) == Cardinality({i \in DOMAIN s : s[i] = b})

\* C26: dedup(L) is a sub-collection of L, no block altered and none kept
\* more often than L holds it, and dedup(dedup(L)) = dedup(L).
C26_DedupIdempotent ==
  pc = "deduped" =>
    /\ \A b \in Range(blocks_out) : Occurrences(blocks_out, b) <= Occurrences(blocks_in, b)
    /\ _deduplicate_blocks(blocks_out) = blocks_out

\* A list that lost a candidate to the pass and came back in another order
\* than descending confidence.
C26_Witness ==
  /\ pc = "deduped"
  /\ Len(blocks_out) < Len(blocks_in)
  /\ \E i, j \in DOMAIN blocks_out :
       i < j /\ RatGT(blocks_out[j].confidence, blocks_out[i].confidence)

\* The strategy priority order the claim names.
ClaimedRank(method) ==
  CASE method = "delimiter" -> 1
    [] method = "markdown" -> 2
    [] method = "keyword" -> 3
    [] method = "indentation" -> 4
    [] method = "density" -> 5

CacheLangs == {python, cobol}

\* load_language(language): the languages cache afterwards.  load_ok says
\* whether loading the artifact and building the Language succeed; a failure
\* is an exception that load_language catches.
load_language(lang, load_ok) ==
  IF lang \notin SUPPORTED_LANGUAGES THEN languages
  ELSE IF lang \in languages THEN languages
  ELSE IF lang \notin grammar_files THEN languages
  ELSE IF load_ok THEN languages \cup {lang}
  ELSE languages

\* get_parser(language); parser_ok says whether Parser(lang) succeeds.
GetParser ==
  /\ \E lang \in CacheLangs, load_ok \in BOOLEAN, parser_ok \in BOOLEAN :
       IF lang \notin SUPPORTED_LANGUAGES \/ lang \in parsers
       THEN UNCHANGED <<languages, parsers>>
       ELSE /\ languages' = load_language(lang, load_ok)
            /\ parsers' = IF lang \in languages' /\ parser_ok
                          THEN parsers \cup {lang}
                          ELSE parsers
  /\ pc' = "cache"
  /\ UNCHANGED <<min_block_lines, text, language, outcome, blocks_in, blocks_out,
                 grammar_files, probe_first, probe_calls>>
  /\ UNCHANGED laterVars

\* The build puts a grammar artifact into the grammar directory.
InstallGrammar ==
  /\ \E lang \in CacheLangs \ grammar_files :
       grammar_files' = grammar_files \cup {lang}
  /\ pc' = "cache"
  /\ UNCHANGED <<min_block_lines, text, language, outcome, blocks_in, blocks_out,
                 parsers, languages, probe_first, probe_calls>>
  /\ UNCHANGED laterVars

\* ------------------------------ SpecRepeat: repeated calls on fixed arguments
ProbeTexts == TextsUpTo(GeneralIds, MaxProbeLines)
OtherTexts == {ScenarioA, ScenarioB}

InitRepeat ==
  /\ Constructed(3)
  /\ text \in ProbeTexts
  /\ language \in Hints
  /\ outcome = NoOutcome
  /\ pc = "start"
  /\ blocks_in = <<>>
  /\ blocks_out = <<>>
  /\ grammar_files = {}
  /\ probe_first = NoOutcome
  /\ probe_calls = 0
  /\ LaterIdle

\* segment(text, language): a call on the probe arguments.
SegmentProbe ==
  /\ outcome' = segment(text, language, min_block_lines)
  /\ probe_first' = IF probe_calls = 0 THEN outcome' ELSE probe_first
  /\ probe_calls' = IF probe_calls < MaxProbeCalls THEN probe_calls + 1 ELSE probe_calls
  /\ pc' = "probe"
  /\ UNCHANGED <<min_block_lines, text, language, blocks_in, blocks_out, parsers,
                 languages, grammar_files>>
  /\ UNCHANGED laterVars

\* A call of the same Segmenter on other arguments.
SegmentOther ==
  /\ \E t \in OtherTexts, h \in Hints : outcome' = segment(t, h, min_block_lines)
  /\ pc' = "other"
  /\ UNCHANGED <<min_block_lines, text, language, blocks_in, blocks_out, parsers,
                 languages, grammar_files, probe_first, probe_calls>>
  /\ UNCHANGED laterVars

NextRepeat == SegmentProbe \/ SegmentOther \/ GetParser \/ InstallGrammar

SpecRepeat == InitRepeat /\ [][NextRepeat]_vars

ProducedCandidates ==
  Range(StrategyCandidates(text, min_block_lines))
    \cup Range(FallbackCandidates(text, cobol))

\* C20: every CandidateBlock produced by a segmentation strategy or by the
\* fallback extractor has 0.0 <= confidence <= 1.0, a density block's
\* min(0.60, density) included.
C20_ConfidenceBounds ==
  pc = "done" =>
    \A b \in ProducedCandidates :
      RatGE(b.confidence, Zero) /\ RatGE(One, b.confidence)

\* A density block whose confidence is its density, below the 0.60 cap, next
\* to candidates of other strategies.
C20_Witness ==
  /\ pc = "done"
  /\ \E b \in ProducedCandidates :
       b.detection_method = "density" /\ RatGT(Rat(60, 100), b.confidence)
  /\ \E b \in ProducedCandidates : b.detection_method = "fallback_regex"


\* --------------------------- SpecBrackets: check_balanced_brackets per code
\* The characters of the code argument: the six brackets and one other.
BracketChars == {"(", ")", "[", "]", "{", "}", "a"}
BracketCodes == UNION {[1..k -> BracketChars] : k \in 0..MaxCodeLen}

InitBrackets ==
  /\ NotBracketIdle
  /\ bracket_code \in BracketCodes
  /\ bracket_ret = <<>>

\* check_balanced_brackets(code).
CheckBalancedBrackets ==
  /\ bracket_ret = <<>>
  /\ bracket_ret' = <<check_balanced_brackets(bracket_code)>>
  /\ UNCHANGED <<notBracketVars, bracket_code>>

NextBrackets == CheckBalancedBrackets

SpecBrackets == InitBrackets /\ [][NextBrackets]_vars

\* The brackets of the code, in order.
BracketWord(w) == SelectSeq(w, LAMBDA c : c \in DOMAIN pairs \cup pairs_values)

\* A well-nested bracket word: empty, or it has an adjacent opener and closer
\* of the same kind and is well nested without them.
RECURSIVE WellNested(_)
WellNested(w) ==
  \/ w = <<>>
  \/ \E i \in 1..(Len(w) - 1) :
       /\ w[i] \in DOMAIN pairs
       /\ w[i + 1] = pairs[w[i]]
       /\ WellNested(SubSeq(w, 1, i - 1) \o SubSeq(w, i + 2, Len(w)))

\* C14: check_balanced_brackets(code) is true exactly when the brackets of
\* code, all other characters ignored, form a well-nested word.
C14_BalancedIffWellNested ==
  bracket_ret # <<>> => (bracket_ret[1] <=> WellNested(BracketWord(bracket_code)))

\* A code with nested brackets of two kinds and other characters, found balanced.
C14_Witness ==
  /\ bracket_ret = <<TRUE>>
  /\ Len(BracketWord(bracket_code)) = 4
  /\ Len(bracket_code) > 4
  /\ \E i \in 1..3 : /\ BracketWord(bracket_code)[i] \in DOMAIN pairs
                     /\ BracketWord(bracket_code)[i + 1] \in DOMAIN pairs
                     /\ BracketWord(bracket_code)[i] # BracketWord(bracket_code)[i + 1]


\* ---------------------------------------- TreeSitterManager, object by object
go == <<"g","o">>

\* The languages the manager is called with: two supported, one not.
ManagerLangSeq == <<python, go, cobol>>
ManagerLangs == Range(ManagerLangSeq)

\* A dict from language to object, 0 where the key is absent.
NoObjects == [l \in ManagerLangs |-> 0]

\* The object super().__new__(cls) returns: no attribute is set yet.
NewInstance ==
  [has_initialized |-> FALSE, initialized |-> FALSE, has_dicts |-> FALSE,
   languages |-> NoObjects, parsers |-> NoObjects]

\* A syntax tree of tree_sitter: node 1 is the root, parent[i] < i is the
\* parent of node i, and kind[i] holds node i's type and is_missing.
NoTree == [parent |-> <<>>, kind |-> <<>>]

\* What a call gave back: None, an object, an exception, or the dict of
\* validate_syntax.
RetNone == [kind |-> "None", id |-> 0, exc |-> "", valid |-> FALSE, errors |-> <<>>,
            node_count |-> -1, tree |-> NoTree]
RetObject(id) == [RetNone EXCEPT !.kind = "object", !.id = id]
RetRaise(exc) == [RetNone EXCEPT !.kind = "raise", !.exc = exc]
RetDict(valid, tree, errors, node_count) ==
  [RetNone EXCEPT !.kind = "dict", !.valid = valid, !.tree = tree, !.errors = errors,
                  !.node_count = node_count]
NotCalled == [RetNone EXCEPT !.kind = "none"]

\* A thread between calls, holding no manager.  prev_fault is what went wrong
\* in the thread's previous call when that was a get_parser call on the same
\* language that returned None.
IdleThread ==
  [pc |-> "idle", call |-> "", calls |-> 0, self |-> 0, mgr |-> 0, lang |-> <<>>,
   lang_obj |-> 0, fault |-> "", prev_fault |-> "", ret |-> NotCalled]

\* The number of calls a thread has made, counted up to MaxCalls.
CountCall(th) == IF th.calls < MaxCalls THEN th.calls + 1 ELSE th.calls

\* The id of the next object made: Language and Parser objects are numbered
\* in the order they are made.
NewObject == 1 + SumOver(loads, ManagerLangSeq) + SumOver(builds, ManagerLangSeq)

SetThread(t, rec) == threads' = [threads EXCEPT ![t] = rec]

\* --------------------------------------------- TreeSitterManager() (22-37)
\* A thread starts TreeSitterManager().
StartNew(t) ==
  /\ threads[t].pc = "idle"
  /\ SetThread(t, [threads[t] EXCEPT !.pc = "new_check", !.call = "TreeSitterManager",
                                     !.calls = CountCall(threads[t]),
                                     !.self = 0, !.fault = "", !.prev_fault = "",
                                     !.ret = NotCalled])
  /\ UNCHANGED <<cls_instance, instances, loads, builds, grammar_dir, returned_parsers>>
  /\ UNCHANGED notMgrVars

\* Line 24: if cls._instance is None.
NewCheck(t) ==
  /\ threads[t].pc = "new_check"
  /\ SetThread(t, [threads[t] EXCEPT !.pc = IF cls_instance = 0 THEN "new_create"
                                           ELSE "new_return"])
  /\ UNCHANGED <<cls_instance, instances, loads, builds, grammar_dir, returned_parsers>>
  /\ UNCHANGED notMgrVars

\* Line 25: cls._instance = super().__new__(cls).
NewCreate(t) ==
  /\ threads[t].pc = "new_create"
  /\ instances' = Append(instances, NewInstance)
  /\ cls_instance' = Len(instances) + 1
  /\ SetThread(t, [threads[t] EXCEPT !.pc = "new_setflag"])
  /\ UNCHANGED <<loads, builds, grammar_dir, returned_parsers>>
  /\ UNCHANGED notMgrVars

\* Line 26: cls._instance._initialized = False, on whatever cls._instance is now.
NewSetFlag(t) ==
  /\ threads[t].pc = "new_setflag"
  /\ instances' = [instances EXCEPT ![cls_instance].has_initialized = TRUE,
                                    ![cls_instance].initialized = FALSE]
  /\ SetThread(t, [threads[t] EXCEPT !.pc = "new_return"])
  /\ UNCHANGED <<cls_instance, loads, builds, grammar_dir, returned_parsers>>
  /\ UNCHANGED notMgrVars

\* Line 27: return cls._instance; __init__ then runs on it.
NewReturn(t) ==
  /\ threads[t].pc = "new_return"
  /\ SetThread(t, [threads[t] EXCEPT !.pc = "init_check", !.self = cls_instance])
  /\ UNCHANGED <<cls_instance, instances, loads, builds, grammar_dir, returned_parsers>>
  /\ UNCHANGED notMgrVars

\* Lines 31-32: if self._initialized: return.  An object whose _initialized
\* was not set yet has no such attribute.
InitCheck(t) ==
  /\ threads[t].pc = "init_check"
  /\ LET self == instances[threads[t].self]
     IN  SetThread(t,
           IF ~self.has_initialized
           THEN [threads[t] EXCEPT !.pc = "idle", !.ret = RetRaise("AttributeError")]
           ELSE IF self.initialized
           THEN [threads[t] EXCEPT !.pc = "idle", !.mgr = threads[t].self,
                                   !.ret = RetObject(threads[t].self)]
           ELSE [threads[t] EXCEPT !.pc = "init_dicts"])
  /\ UNCHANGED <<cls_instance, instances, loads, builds, grammar_dir, returned_parsers>>
  /\ UNCHANGED notMgrVars

\* Lines 34-36: self.languages = {}, self.parsers = {}.
InitDicts(t) ==
  /\ threads[t].pc = "init_dicts"
  /\ instances' = [instances EXCEPT ![threads[t].self].has_dicts = TRUE,
                                    ![threads[t].self].languages = NoObjects,
                                    ![threads[t].self].parsers = NoObjects]
  /\ SetThread(t, [threads[t] EXCEPT !.pc = "init_flag"])
  /\ UNCHANGED <<cls_instance, loads, builds, grammar_dir, returned_parsers>>
  /\ UNCHANGED notMgrVars

\* Line 37: self._initialized = True.
InitFlag(t) ==
  /\ threads[t].pc = "init_flag"
  /\ instances' = [instances EXCEPT ![threads[t].self].initialized = TRUE]
  /\ SetThread(t, [threads[t] EXCEPT !.pc = "idle", !.mgr = threads[t].self,
                                     !.ret = RetObject(threads[t].self)])
  /\ UNCHANGED <<cls_instance, loads, builds, grammar_dir, returned_parsers>>
  /\ UNCHANGED notMgrVars


\* ------------------------------------------------ tree_sitter syntax trees
NodeKinds ==
  { [type |-> "ERROR", is_missing |-> FALSE],
    [type |-> "identifier", is_missing |-> TRUE],
    [type |-> "identifier", is_missing |-> FALSE] }

Parents(n) == {p \in [1..n -> 0..(n - 1)] : p[1] = 0 /\ \A i \in 2..n : p[i] \in 1..(i - 1)}

\* The trees parser.parse can return, of at most MaxNodes nodes.
Trees ==
  UNION { {[parent |-> p, kind |-> k] : p \in Parents(n), k \in [1..n -> NodeKinds]} :
          n \in 1..MaxNodes }

\* node is a or below a.
RECURSIVE InSubtree(_, _, _)
InSubtree(tree, a, node) ==
  \/ node = a
  \/ node > a /\ InSubtree(tree, a, tree.parent[node])

\* Node.has_error of tree_sitter: the node is, or contains, a syntax error; a
\* missing node counts as one.
has_error(tree, node) ==
  \E j \in DOMAIN tree.kind :
    /\ InSubtree(tree, node, j)
    /\ (tree.kind[j].type = "ERROR" \/ tree.kind[j].is_missing)

\* _extract_errors that collects the ERROR nodes only.
RECURSIVE _extract_errors_no_missing(_, _)
_extract_errors_no_missing(tree, node) ==
  LET RECURSIVE OfChildren(_)
      OfChildren(j) ==
        IF j > Len(tree.kind) THEN <<>>
        ELSE (IF tree.parent[j] = node THEN _extract_errors_no_missing(tree, j) ELSE <<>>)
               \o OfChildren(j + 1)
      own == IF tree.kind[node].type = "ERROR"
             THEN <<[type |-> tree.kind[node].type, start |-> node, end |-> node]>>
             ELSE <<>>
  IN  own \o OfChildren(node + 1)

\* Lines 175-189.  A node's start and end point are given by its number.
RECURSIVE _extract_errors(_, _)
_extract_errors(tree, node) ==
  LET RECURSIVE OfChildren(_)
      OfChildren(j) ==
        IF j > Len(tree.kind) THEN <<>>
        ELSE (IF tree.parent[j] = node THEN _extract_errors(tree, j) ELSE <<>>)
               \o OfChildren(j + 1)
      own == IF tree.kind[node].type = "ERROR" \/ tree.kind[node].is_missing
             THEN <<[type |-> tree.kind[node].type, start |-> node, end |-> node]>>
             ELSE <<>>
  IN  own \o OfChildren(node + 1)

\* Lines 191-196.
RECURSIVE _count_nodes(_, _)
_count_nodes(tree, node) ==
  LET RECURSIVE OfChildren(_)
      OfChildren(j) ==
        IF j > Len(tree.kind) THEN 0
        ELSE (IF tree.parent[j] = node THEN _count_nodes(tree, j) ELSE 0) + OfChildren(j + 1)
  IN  1 + OfChildren(node + 1)

\* ------------------------- get_parser, load_language, validate_syntax steps
\* Lines 91-93 with the exception raised again instead of return None.
load_language_reraise(exc) == RetRaise(exc)

\* Lines 91-93: except Exception: print, return None.
load_language_except(exc) == RetNone

\* Lines 77-80: except AttributeError: print, return None.
getattr_except(exc) == RetNone

\* Lines 123-125: except Exception: print, return None.
get_parser_except(exc) == RetNone

\* Lines 168-173: except Exception: the dict of an invalid result.
validate_syntax_except(exc) == RetDict(FALSE, NoTree, <<exc>>, -1)

\* What can go wrong between LoadLibrary and Language(ptr), lines 65-86.
LoadFaults == {"OSError", "AttributeError", "ValueError"}

\* How the thread goes on when get_parser gives v back.
AfterGetParser(th, v) ==
  IF th.call = "validate_syntax" /\ v.kind # "raise"
  THEN [th EXCEPT !.pc = "validate", !.ret = v]
  ELSE [th EXCEPT !.pc = "idle", !.ret = v]

\* How the thread goes on when load_language gives v back.
AfterLoadLanguage(th, v) ==
  IF v.kind = "raise" \/ th.call = "load_language"
  THEN [th EXCEPT !.pc = "idle", !.ret = v]
  ELSE [th EXCEPT !.pc = "build_parser", !.lang_obj = v.id]

\* A manager that remembers a missing grammar by a placeholder in the
\* parser cache.
GrammarNotFoundMemoized(self, lang) == [self EXCEPT !.parsers[lang] = -1]

\* Lines 60-62: print the warning and return None; the caches are not touched.
GrammarNotFound(self, lang) == self

\* A cache lookup that never finds the parser.
CachedParserNever(self, lang) == 0

\* Lines 109-110: self.parsers[language], 0 when the key is absent.
CachedParser(self, lang) == self.parsers[lang]

\* get_parser records the parser objects it returns.
NoteReturned(lang, v) ==
  returned_parsers' =
    IF v.kind = "object"
    THEN [returned_parsers EXCEPT ![lang] = returned_parsers[lang] \cup {v.id}]
    ELSE returned_parsers

StartGetParser(t, lang) ==
  /\ threads[t].pc = "idle" /\ threads[t].mgr # 0
  /\ SetThread(t, [threads[t] EXCEPT !.pc = "gp_check", !.call = "get_parser",
                     !.calls = CountCall(threads[t]),
                     !.self = threads[t].mgr, !.lang = lang, !.lang_obj = 0,
                     !.fault = "",
                     !.prev_fault = IF /\ threads[t].call = "get_parser"
                                       /\ threads[t].lang = lang
                                       /\ threads[t].ret.kind = "None"
                                    THEN threads[t].fault ELSE "",
                     !.ret = NotCalled])
  /\ UNCHANGED <<cls_instance, instances, loads, builds, grammar_dir, returned_parsers>>
  /\ UNCHANGED notMgrVars

StartLoadLanguage(t, lang) ==
  /\ threads[t].pc = "idle" /\ threads[t].mgr # 0
  /\ SetThread(t, [threads[t] EXCEPT !.pc = "ll_check", !.call = "load_language",
                     !.calls = CountCall(threads[t]),
                     !.self = threads[t].mgr, !.lang = lang, !.lang_obj = 0,
                     !.fault = "", !.prev_fault = "", !.ret = NotCalled])
  /\ UNCHANGED <<cls_instance, instances, loads, builds, grammar_dir, returned_parsers>>
  /\ UNCHANGED notMgrVars

StartValidateSyntax(t, lang) ==
  /\ threads[t].pc = "idle" /\ threads[t].mgr # 0
  /\ SetThread(t, [threads[t] EXCEPT !.pc = "gp_check", !.call = "validate_syntax",
                     !.calls = CountCall(threads[t]),
                     !.self = threads[t].mgr, !.lang = lang, !.lang_obj = 0,
                     !.fault = "", !.prev_fault = "", !.ret = NotCalled])
  /\ UNCHANGED <<cls_instance, instances, loads, builds, grammar_dir, returned_parsers>>
  /\ UNCHANGED notMgrVars

\* Lines 105-110: the supported check and the parser cache.
GpCheck(t) ==
  /\ threads[t].pc = "gp_check"
  /\ LET th   == threads[t]
         self == instances[th.self]
         v    == IF th.lang \notin SUPPORTED_LANGUAGES THEN RetNone
                 ELSE IF ~self.has_dicts THEN RetRaise("AttributeError")
                 ELSE RetObject(CachedParser(self, th.lang))
     IN  IF v.kind = "object" /\ v.id = 0
         THEN /\ SetThread(t, [th EXCEPT !.pc = "ll_check"])
              /\ UNCHANGED returned_parsers
         ELSE /\ SetThread(t, AfterGetParser(th, v))
              /\ NoteReturned(th.lang, v)
  /\ UNCHANGED <<cls_instance, instances, loads, builds, grammar_dir>>
  /\ UNCHANGED notMgrVars

\* Lines 49-54: the supported check and the language cache.
LlCheck(t) ==
  /\ threads[t].pc = "ll_check"
  /\ LET th   == threads[t]
         self == instances[th.self]
     IN  SetThread(t,
           IF th.lang \notin SUPPORTED_LANGUAGES THEN AfterLoadLanguage(th, RetNone)
           ELSE IF ~self.has_dicts THEN AfterLoadLanguage(th, RetRaise("AttributeError"))
           ELSE IF self.languages[th.lang] # 0
           THEN AfterLoadLanguage(th, RetObject(self.languages[th.lang]))
           ELSE [th EXCEPT !.pc = "ll_load"])
  /\ UNCHANGED <<cls_instance, instances, loads, builds, grammar_dir, returned_parsers>>
  /\ UNCHANGED notMgrVars

\* Lines 56-93: the try block that loads the artifact and makes the Language.
LlLoad(t) ==
  /\ threads[t].pc = "ll_load"
  /\ LET th == threads[t]
     IN  IF th.lang \notin grammar_dir
         THEN /\ SetThread(t, AfterLoadLanguage([th EXCEPT !.fault = "missing"], RetNone))
              /\ instances' = [instances EXCEPT ![th.self] = GrammarNotFound(@, th.lang)]
              /\ UNCHANGED loads
         ELSE \/ /\ instances' = [instances EXCEPT ![th.self].languages[th.lang] = NewObject]
                 /\ loads' = [loads EXCEPT ![th.lang] = @ + 1]
                 /\ SetThread(t, AfterLoadLanguage(th, RetObject(NewObject)))
              \/ /\ \E exc \in LoadFaults :
                      SetThread(t, AfterLoadLanguage([th EXCEPT !.fault = exc],
                                     IF exc = "AttributeError" THEN getattr_except(exc)
                                     ELSE load_language_except(exc)))
                 /\ UNCHANGED <<instances, loads>>
  /\ UNCHANGED <<cls_instance, builds, grammar_dir, returned_parsers>>
  /\ UNCHANGED notMgrVars

\* Lines 113-125: if not lang: return None; Parser(lang) and the parser cache.
BuildParser(t) ==
  /\ threads[t].pc = "build_parser"
  /\ LET th == threads[t]
     IN  IF th.lang_obj = 0
         THEN /\ SetThread(t, AfterGetParser(th, RetNone))
              /\ UNCHANGED <<instances, builds, returned_parsers>>
         ELSE \/ /\ instances' = [instances EXCEPT ![th.self].parsers[th.lang] = NewObject]
                 /\ builds' = [builds EXCEPT ![th.lang] = @ + 1]
                 /\ SetThread(t, AfterGetParser(th, RetObject(NewObject)))
                 /\ NoteReturned(th.lang, RetObject(NewObject))
              \/ /\ SetThread(t, AfterGetParser([th EXCEPT !.fault = "Exception"],
                                                get_parser_except("Exception")))
                 /\ UNCHANGED <<instances, builds, returned_parsers>>
  /\ UNCHANGED <<cls_instance, loads, grammar_dir>>
  /\ UNCHANGED notMgrVars

\* Lines 140-173: validate_syntax after its get_parser call.
ValidateSyntax(t) ==
  /\ threads[t].pc = "validate"
  /\ LET th == threads[t]
     IN  IF th.ret.kind = "None"
         THEN SetThread(t, [th EXCEPT !.pc = "idle",
                !.ret = RetDict(FALSE, NoTree, <<"Parser not available">>, -1)])
         ELSE \/ \E tree \in Trees :
                   LET root       == 1
                       has_errors == has_error(tree, root)
                       errors     == IF has_errors THEN _extract_errors(tree, root) ELSE <<>>
                   IN  SetThread(t, [th EXCEPT !.pc = "idle",
                         !.ret = RetDict(~has_errors, tree, errors, _count_nodes(tree, root))])
              \/ SetThread(t, [th EXCEPT !.pc = "idle", !.fault = "Exception",
                                         !.ret = validate_syntax_except("Exception")])
  /\ UNCHANGED <<cls_instance, instances, loads, builds, grammar_dir, returned_parsers>>
  /\ UNCHANGED notMgrVars


\* ------------------------- SpecManager: one caller, one call after another
InitManager ==
  /\ NotMgrIdle
  /\ cls_instance = 0
  /\ instances = <<>>
  /\ threads = [t \in {1} |-> IdleThread]
  /\ loads = [l \in ManagerLangs |-> 0]
  /\ builds = [l \in ManagerLangs |-> 0]
  /\ grammar_dir \in SUBSET ManagerLangs
  /\ returned_parsers = [l \in ManagerLangs |-> {}]

NextManager ==
  \/ \E t \in DOMAIN threads : StartNew(t)
  \/ \E t \in DOMAIN threads, lang \in ManagerLangs : StartGetParser(t, lang)
  \/ \E t \in DOMAIN threads, lang \in ManagerLangs : StartLoadLanguage(t, lang)
  \/ \E t \in DOMAIN threads, lang \in ManagerLangs : StartValidateSyntax(t, lang)
  \/ \E t \in DOMAIN threads : NewCheck(t)
  \/ \E t \in DOMAIN threads : NewCreate(t)
  \/ \E t \in DOMAIN threads : NewSetFlag(t)
  \/ \E t \in DOMAIN threads : NewReturn(t)
  \/ \E t \in DOMAIN threads : InitCheck(t)
  \/ \E t \in DOMAIN threads : InitDicts(t)
  \/ \E t \in DOMAIN threads : InitFlag(t)
  \/ \E t \in DOMAIN threads : GpCheck(t)
  \/ \E t \in DOMAIN threads : LlCheck(t)
  \/ \E t \in DOMAIN threads : LlLoad(t)
  \/ \E t \in DOMAIN threads : BuildParser(t)
  \/ \E t \in DOMAIN threads : ValidateSyntax(t)

SpecManager == InitManager /\ [][NextManager]_vars

\* --------------------- SpecThreads: MaxThreads threads, steps interleaved
InitThreads ==
  /\ NotMgrIdle
  /\ cls_instance = 0
  /\ instances = <<>>
  /\ threads = [t \in 1..MaxThreads |-> IdleThread]
  /\ loads = [l \in ManagerLangs |-> 0]
  /\ builds = [l \in ManagerLangs |-> 0]
  /\ grammar_dir = ManagerLangs
  /\ returned_parsers = [l \in ManagerLangs |-> {}]

\* Each thread makes at most MaxCalls calls.
NextThreads ==
  \/ \E t \in DOMAIN threads : threads[t].calls < MaxCalls /\ StartNew(t)
  \/ \E t \in DOMAIN threads, lang \in ManagerLangs :
       threads[t].calls < MaxCalls /\ StartGetParser(t, lang)
  \/ \E t \in DOMAIN threads : NewCheck(t)
  \/ \E t \in DOMAIN threads : NewCreate(t)
  \/ \E t \in DOMAIN threads : NewSetFlag(t)
  \/ \E t \in DOMAIN threads : NewReturn(t)
  \/ \E t \in DOMAIN threads : InitCheck(t)
  \/ \E t \in DOMAIN threads : InitDicts(t)
  \/ \E t \in DOMAIN threads : InitFlag(t)
  \/ \E t \in DOMAIN threads : GpCheck(t)
  \/ \E t \in DOMAIN threads : LlCheck(t)
  \/ \E t \in DOMAIN threads : LlLoad(t)
  \/ \E t \in DOMAIN threads : BuildParser(t)

SpecThreads == InitThreads /\ [][NextThreads]_vars


\* -------------- SpecInstall: one caller, grammars installed between calls
\* A build puts the artifact of a language into the grammar directory.
InstallGrammarArtifact(lang) ==
  /\ lang \notin grammar_dir
  /\ grammar_dir' = grammar_dir \cup {lang}
  /\ UNCHANGED <<cls_instance, instances, threads, loads, builds, returned_parsers>>
  /\ UNCHANGED notMgrVars

NextInstall ==
  \/ NextManager
  \/ \E lang \in ManagerLangs : InstallGrammarArtifact(lang)

SpecInstall == InitManager /\ [][NextInstall]_vars

\* ------------------------------------------------- claims on the manager
\* The thread has come back from a call of the named method.
CameBack(th, method) == th.pc = "idle" /\ th.call = method

\* C11: get_parser and load_language never raise; for a language outside
\* SUPPORTED_LANGUAGES, for a missing grammar artifact and for an artifact that
\* fails to load or to build a parser they return None.
C11_NeverRaise ==
  \A t \in DOMAIN threads :
    LET th == threads[t]
    IN  (CameBack(th, "get_parser") \/ CameBack(th, "load_language")) =>
          /\ th.ret.kind \in {"None", "object"}
          /\ th.lang \notin SUPPORTED_LANGUAGES => th.ret.kind = "None"
          /\ th.lang \notin grammar_dir => th.ret.kind = "None"
          /\ th.fault # "" => th.ret.kind = "None"

\* get_parser came back with None after loading the artifact raised.
C11_Witness ==
  \E t \in DOMAIN threads :
    /\ CameBack(threads[t], "get_parser")
    /\ threads[t].fault = "OSError"
    /\ threads[t].ret.kind = "None"

\* C12: in a sequential run, once get_parser(L) has returned a parser every
\* later get_parser(L) returns that same object, and per language at most one
\* Language is loaded and one Parser made.
C12_ParserMemoized ==
  /\ \A l \in ManagerLangs :
       /\ Cardinality(returned_parsers[l]) <= 1
       /\ loads[l] <= 1
       /\ builds[l] <= 1
  /\ \A t \in DOMAIN threads :
       LET th == threads[t]
       IN  CameBack(th, "get_parser") /\ returned_parsers[th.lang] # {} =>
             th.ret.kind = "object" /\ th.ret.id \in returned_parsers[th.lang]

\* A get_parser call that came back with the parser of the cache: it loaded
\* no Language itself.
C12_Witness ==
  \E t \in DOMAIN threads :
    /\ CameBack(threads[t], "get_parser")
    /\ threads[t].ret.kind = "object"
    /\ threads[t].lang_obj = 0

\* C13: with threads calling TreeSitterManager() and get_parser concurrently,
\* per language at most one Language is loaded and one Parser made, all
\* callers get the same manager and the same parser, and a cache entry once
\* written stays in the cache.
C13_SingleInitialization ==
  /\ Len(instances) <= 1
  /\ \A t \in DOMAIN threads : threads[t].ret.kind # "raise"
  /\ \A l \in ManagerLangs :
       /\ loads[l] <= 1
       /\ builds[l] <= 1
       /\ Cardinality(returned_parsers[l]) <= 1
       /\ returned_parsers[l] # {} =>
            /\ cls_instance # 0
            /\ instances[cls_instance].parsers[l] \in returned_parsers[l]

\* C15: validate_syntax never raises, its valid is true exactly when its
\* errors list is empty, and after a successful parse node_count is the
\* number of nodes of the tree.
C15_ValidIffNoErrors ==
  \A t \in DOMAIN threads :
    LET th == threads[t]
    IN  CameBack(th, "validate_syntax") =>
          /\ th.ret.kind = "dict"
          /\ th.ret.valid <=> Len(th.ret.errors) = 0
          /\ Len(th.ret.tree.kind) > 0 => th.ret.node_count = Len(th.ret.tree.kind)

\* A parse whose tree has a missing node below the root and no ERROR node.
C15_Witness ==
  \E t \in DOMAIN threads :
    LET th == threads[t]
    IN  /\ CameBack(th, "validate_syntax")
        /\ Len(th.ret.tree.kind) = 3
        /\ ~th.ret.tree.kind[1].is_missing
        /\ \A j \in 1..3 : th.ret.tree.kind[j].type # "ERROR"
        /\ th.ret.tree.parent[3] = 2
        /\ th.ret.tree.kind[3].is_missing
        /\ ~th.ret.valid


\* ------------------------------ SpecScanner: the scanner on every content
\* The lengths the pad brings a content to: around the limit of has_secrets,
\* and the 150,000 characters of the large-file scenario.
PaddedLens == {100000 - 1, 100000, 100000 + 1, 150000}

Contents ==
  {[pad |-> 0, lines |-> ls] : ls \in SecretTexts}
    \cup {[pad |-> n - Len(join(SecretChars(ls))), lines |-> ls] :
            ls \in SecretTexts, n \in PaddedLens}

InitScanner ==
  /\ NotScanIdle
  /\ content \in Contents
  /\ has_secrets_ret = <<>>
  /\ scan_ret = <<>>
  /\ secret_types_ret = <<>>
  /\ secret_fields = <<>>

HasSecrets ==
  /\ has_secrets_ret = <<>>
  /\ has_secrets_ret' = <<has_secrets(content)>>
  /\ UNCHANGED <<notScanVars, content, scan_ret, secret_types_ret, secret_fields>>

GetSecretTypes ==
  /\ secret_types_ret = <<>>
  /\ secret_types_ret' = <<get_secret_types(content)>>
  /\ UNCHANGED <<notScanVars, content, has_secrets_ret, scan_ret, secret_fields>>

Scan ==
  /\ scan_ret = <<>>
  /\ scan_ret' = <<scan(content)>>
  /\ UNCHANGED <<notScanVars, content, has_secrets_ret, secret_types_ret, secret_fields>>

\* Lines 133-135 of batch_processor.py for a segment with this content.
SecretDetection ==
  /\ secret_fields = <<>>
  /\ secret_fields' = <<SecretFields(has_secrets(content), get_secret_types(content))>>
  /\ UNCHANGED <<notScanVars, content, has_secrets_ret, scan_ret, secret_types_ret>>

NextScanner == HasSecrets \/ GetSecretTypes \/ Scan \/ SecretDetection

SpecScanner == InitScanner /\ [][NextScanner]_vars

\* C16: has_secrets(content) is true exactly when content is non-empty, has at
\* most 100,000 characters and a pattern of the table matches it; beyond
\* 100,000 characters it is false whatever the content embeds.
C16_HasSecretsGuard ==
  has_secrets_ret # <<>> =>
    /\ has_secrets_ret[1] <=>
         (ContentLen(content) >= 1 /\ ContentLen(content) <= 100000
            /\ get_secret_types(content) # {})
    /\ ContentLen(content) > 100000 => has_secrets_ret = <<FALSE>>

\* A content of exactly 100,000 characters with a secret is scanned.
C16_Witness ==
  /\ ContentLen(content) = 100000
  /\ has_secrets_ret = <<TRUE>>

\* C28: has_secrets(content) implies a non-empty get_secret_types(content);
\* the has_secrets and secret_type fields stored for a block agree, true and
\* non-null or false and null; for content over 100,000 characters they are
\* false and null.
C28_SecretFlagsConsistent ==
  /\ (has_secrets_ret = <<TRUE>> /\ secret_types_ret # <<>>) => secret_types_ret[1] # {}
  /\ secret_fields # <<>> =>
       /\ secret_fields[1].has_secrets <=> secret_fields[1].secret_type # <<>>
       /\ has_secrets_ret # <<>> => secret_fields[1].has_secrets = has_secrets_ret[1]
       /\ ContentLen(content) > 100000 =>
            (~secret_fields[1].has_secrets /\ secret_fields[1].secret_type = <<>>)

\* A content over the limit that embeds a secret, its fields stored as false
\* and null.
C28_Witness ==
  /\ ContentLen(content) > 100000
  /\ secret_types_ret # <<>> /\ secret_types_ret[1] # {}
  /\ secret_fields = <<[has_secrets |-> FALSE, secret_type |-> <<>>]>>

\* s occurs in t as a run of consecutive characters.
Occurs(s, t) == \E i \in 0..(Len(t) - Len(s)) : SubSeq(t, i + 1, i + Len(s)) = s

\* The text a finding's pattern matched.
Matched(f) ==
  SubSeq(SECRET_LINES[content.lines[f.line - content.pad]], f.match_start + 1, f.match_end)

\* C17: no finding of scan holds the matched secret: a finding's snippet never
\* includes the full text the pattern matched.
C17_SnippetHidesSecret ==
  scan_ret # <<>> =>
    \A k \in DOMAIN scan_ret[1] : ~Occurs(Matched(scan_ret[1][k]), scan_ret[1][k].snippet)


\* ------------------------------------- BatchProcessor (batch_processor.py)
\* The code between two awaits runs on the event loop without interruption:
\* each coroutine step below is one such stretch.

txt == <<"t","x","t">>

\* The file_metadata rows: file 1 has no extension (file_type ''), file 2 is
\* a .txt file; no other id has a row.
FILES == (1 :> [file_type |-> <<>>]) @@ (2 :> [file_type |-> txt])

\* The ids a batch may name: the two files, and an id without a row.
BatchFileIds == {1, 2, 3}

\* Lines 81-83: db.query(FileMetadata).filter(FileMetadata.id == file_id).first(),
\* as the list of the row found: empty for None.
query_first(file_id) == IF file_id \in DOMAIN FILES THEN <<FILES[file_id]>> ELSE <<>>

\* What normalize_file may return as the content: prose, or a fenced block
\* that assigns a password.
BatchTexts == {<<"P">>, <<"Fp", "D", "Pw", "Fc">>}

\* A content that segment returns as two blocks, the first with a password:
\* a definition, a password assignment and a definition.
TwoBlockTexts == {<<"D", "Pw", "D">>}

\* secret_scanner.py lines 23-41 on the characters of a block content.
has_secrets_of_block(chars) ==
  IF Len(chars) = 0 \/ Len(chars) > 100000 THEN FALSE
  ELSE \E name \in DOMAIN PATTERNS : search(PATTERNS[name], chars)

get_secret_types_of_block(chars) ==
  {name \in DOMAIN PATTERNS : search(PATTERNS[name], chars)}

\* Lines 133-134 for each block of a segment outcome.
Scanned(has, chars) == SecretFields(has, get_secret_types_of_block(chars))

WithScans(ret) ==
  [ret EXCEPT !.blocks =
     Table([i \in DOMAIN @ |->
        [segment |-> @[i],
         scanned |-> Scanned(has_secrets_of_block(ContentChars(@[i].content)),
                             ContentChars(@[i].content))]])]

\* Line 25: Segmenter() has the default min_block_lines.  Lines 113-118:
\* segment(normalized_text, language=file.file_type, filename=file.filename),
\* each block with what lines 133-134 find in it, for the contents texts.
SegmentedTexts(texts) ==
  Table([file_type \in {FILES[id].file_type : id \in DOMAIN FILES} |->
     Table([t \in texts |-> WithScans(segment(t, file_type, 3))])])

BatchSegmented == SegmentedTexts(BatchTexts)

\* Lines 124-131: what the loop reads of the two results, result['valid']
\* and filter_result['accept'].
ValidationResults == [valid : BOOLEAN]
FilterResults == [accept : BOOLEAN]

\* What the two say of one block: the validation result, and the filter's
\* answer when the filter is asked.
Verdicts ==
  {<<v>> : v \in {r \in ValidationResults : ~r.valid}}
    \cup {<<v, f>> : v \in {r \in ValidationResults : r.valid}, f \in FilterResults}

\* One stage applied to one block: the block is named by its line range.
StageEvent(stage, segment_i, ok) ==
  [stage |-> stage, block |-> <<segment_i.start_line, segment_i.end_line>>, ok |-> ok]

\* Lines 138-151.
ExtractedBlock(k, file_id, segment_i, scanned) ==
  [task |-> k, file_id |-> file_id, content |-> segment_i.content,
   start_line |-> segment_i.start_line, end_line |-> segment_i.end_line,
   has_secrets |-> scanned.has_secrets, secret_type |-> scanned.secret_type]

\* The loop with the filter's answer ignored.
RECURSIVE BlockLoopNoFilter(_, _, _, _, _)
BlockLoopNoFilter(k, file_id, segments, verdicts, i) ==
  IF i > Len(segments) THEN [log |-> <<>>, extracted_blocks |-> {}]
  ELSE LET segment_i == segments[i].segment
           rest == BlockLoopNoFilter(k, file_id, segments, verdicts, i + 1)
       IN  IF verdicts[i][1].valid
           THEN [log |-> <<StageEvent("validate", segment_i, TRUE),
                           StageEvent("filter", segment_i, verdicts[i][2].accept),
                           StageEvent("scan", segment_i, TRUE),
                           StageEvent("store", segment_i, TRUE)>> \o rest.log,
                 extracted_blocks |->
                   {ExtractedBlock(k, file_id, segment_i, segments[i].scanned)}
                     \cup rest.extracted_blocks]
           ELSE [log |-> <<StageEvent("validate", segment_i, FALSE)>> \o rest.log,
                 extracted_blocks |-> rest.extracted_blocks]

\* Lines 120-154: the stages applied to each segment, and the rows added.
RECURSIVE BlockLoop(_, _, _, _, _)
BlockLoop(k, file_id, segments, verdicts, i) ==
  IF i > Len(segments) THEN [log |-> <<>>, extracted_blocks |-> {}]
  ELSE LET segment_i == segments[i].segment
           rest == BlockLoop(k, file_id, segments, verdicts, i + 1)
       IN  IF verdicts[i][1].valid
           THEN IF verdicts[i][2].accept
                THEN [log |-> <<StageEvent("validate", segment_i, TRUE),
                                StageEvent("filter", segment_i, TRUE),
                                StageEvent("scan", segment_i, TRUE),
                                StageEvent("store", segment_i, TRUE)>> \o rest.log,
                      extracted_blocks |->
                        {ExtractedBlock(k, file_id, segment_i, segments[i].scanned)}
                          \cup rest.extracted_blocks]
                ELSE [log |-> <<StageEvent("validate", segment_i, TRUE),
                                StageEvent("filter", segment_i, FALSE)>> \o rest.log,
                      extracted_blocks |-> rest.extracted_blocks]
           ELSE [log |-> <<StageEvent("validate", segment_i, FALSE)>> \o rest.log,
                 extracted_blocks |-> rest.extracted_blocks]

\* Lines 40-47.
NewBatchStatus(ids) ==
  [total_files |-> Len(ids), completed_files |-> 0, failed_files |-> 0,
   in_progress |-> TRUE, file_statuses |-> <<>>]

\* Lines 73-78.
MarkProcessing(status, file_id) ==
  [status EXCEPT !.file_statuses = (file_id :> "processing") @@ @]

\* Lines 164-170.
MarkComplete(status, file_id) ==
  [status EXCEPT !.completed_files = @ + 1, !.file_statuses[file_id] = "complete"]

\* An exception handler that marks the file and leaves the count alone.
ExceptHandlerNoCount(status, file_id) ==
  [status EXCEPT !.file_statuses =
     IF file_id \in DOMAIN @ THEN [@ EXCEPT ![file_id] = "error"] ELSE @]

\* Lines 178-187.
ExceptHandler(status, file_id) ==
  [status EXCEPT !.failed_files = @ + 1,
                 !.file_statuses =
                   IF file_id \in DOMAIN @ THEN [@ EXCEPT ![file_id] = "error"] ELSE @]

\* Lines 190-195: with a file row at hand the handler commits; if that
\* raises it rolls back; the rollback may raise too.
HandlerOutcomes == {"commit", "rollback", "rollback raises"}

NewTask(file_id) == [pc |-> "start", file_id |-> file_id, text |-> <<>>, log |-> <<>>, result |-> "none"]

Finish(k, log, result) ==
  tasks' = [tasks EXCEPT ![k] = [@ EXCEPT !.pc = "done", !.text = <<>>, !.log = log, !.result = result]]

\* The except block entered with status st, added being the rows this
\* coroutine added to the session.  A rollback takes them out again; an
\* exception of the rollback leaves the coroutine.
Failed(k, st, log, added, has_file) ==
  /\ batch_status' = ExceptHandler(st, tasks[k].file_id)
  /\ IF has_file
     THEN \E h \in HandlerOutcomes :
            /\ Finish(k, log, IF h = "rollback raises" THEN "raised" ELSE "error")
            /\ db_blocks' = IF h = "rollback" THEN db_blocks ELSE db_blocks \cup added
     ELSE /\ Finish(k, log, "error")
          /\ db_blocks' = db_blocks \cup added

\* Lines 40-55, up to the await of gather.
ProcessBatch ==
  /\ batch_pc = "called"
  /\ batch_status' = NewBatchStatus(file_ids)
  /\ tasks' = [k \in DOMAIN file_ids |-> NewTask(file_ids[k])]
  /\ batch_pc' = "gather"
  /\ UNCHANGED <<file_ids, segmented, db_blocks>>
  /\ UNCHANGED notBatchVars

\* Lines 70-109, up to the await of normalize_file.
TaskStart(k) ==
  /\ batch_pc = "gather"
  /\ tasks[k].pc = "start"
  /\ LET st == MarkProcessing(batch_status, tasks[k].file_id)
     IN  IF query_first(tasks[k].file_id) = <<>>
         THEN Failed(k, st, <<>>, {}, FALSE)
         ELSE \E committed \in BOOLEAN :
                IF committed
                THEN /\ batch_status' = st
                     /\ tasks' = [tasks EXCEPT ![k].pc = "normalize"]
                     /\ db_blocks' = db_blocks
                ELSE Failed(k, st, <<>>, {}, TRUE)
  /\ UNCHANGED <<file_ids, segmented, batch_pc>>
  /\ UNCHANGED notBatchVars

\* normalize_file raises (normalizer.py line 39), and the except block runs.
NormalizeRaises(k) ==
  /\ batch_pc = "gather"
  /\ tasks[k].pc = "normalize"
  /\ Failed(k, batch_status, <<>>, {}, TRUE)
  /\ UNCHANGED <<file_ids, segmented, batch_pc>>
  /\ UNCHANGED notBatchVars

\* normalize_file returns one of the contents of the table; lines 102-118,
\* up to the await of segment.
Normalized(k) ==
  /\ batch_pc = "gather"
  /\ tasks[k].pc = "normalize"
  /\ \E t \in DOMAIN segmented[query_first(tasks[k].file_id)[1].file_type] :
       tasks' = [tasks EXCEPT ![k] = [@ EXCEPT !.pc = "segment", !.text = t]]
  /\ UNCHANGED <<file_ids, segmented, batch_pc, batch_status, db_blocks>>
  /\ UNCHANGED notBatchVars

\* Where a call of the loop raises: nowhere, or in validate_block or in
\* should_accept_block (after a valid result) on block at.
LoopRaises(n) ==
  {[in |-> "nowhere", at |-> n + 1]}
    \cup [in : {"validate_block", "should_accept_block"}, at : 1..n]

\* The stages that ran on the block the loop raised on.
RaisedOn(raise, blocks) ==
  IF raise.in = "should_accept_block"
  THEN <<StageEvent("validate", blocks[raise.at].segment, TRUE)>>
  ELSE <<>>

\* Lines 120-201, to the end of the coroutine, ret being what segment
\* returned or raised.
AfterSegment(k, file_id, ret) ==
  IF ret.kind = "raise"
  THEN Failed(k, batch_status, <<>>, {}, TRUE)
  ELSE \E raise \in LoopRaises(Len(ret.blocks)), committed \in BOOLEAN :
       \E verdicts \in [1..(raise.at - 1) -> Verdicts] :
       \E loop \in {BlockLoop(k, file_id, SubSeq(ret.blocks, 1, raise.at - 1), verdicts, 1)} :
         \E log \in {[i \in DOMAIN ret.blocks |-> StageEvent("segment", ret.blocks[i].segment, TRUE)]
                       \o loop.log \o RaisedOn(raise, ret.blocks)} :
           IF raise.in = "nowhere" /\ committed
           THEN /\ batch_status' = MarkComplete(batch_status, file_id)
                /\ Finish(k, log, "success")
                /\ db_blocks' = db_blocks \cup loop.extracted_blocks
           ELSE Failed(k, batch_status, log, loop.extracted_blocks, TRUE)

\* segment returns or raises, and the coroutine runs to its end.
Segmented(k) ==
  /\ batch_pc = "gather"
  /\ tasks[k].pc = "segment"
  /\ AfterSegment(k, tasks[k].file_id,
                  segmented[query_first(tasks[k].file_id)[1].file_type][tasks[k].text])
  /\ UNCHANGED <<file_ids, segmented, batch_pc>>
  /\ UNCHANGED notBatchVars

\* Lines 55-61: gather has every result (exceptions among them).
GatherReturns ==
  /\ batch_pc = "gather"
  /\ \A k \in DOMAIN tasks : tasks[k].pc = "done"
  /\ batch_status' = [batch_status EXCEPT !.in_progress = FALSE]
  /\ batch_pc' = "returned"
  /\ UNCHANGED <<file_ids, segmented, tasks, db_blocks>>
  /\ UNCHANGED notBatchVars

\* -------------------------------- SpecBatch: one process_batch call
\* The file_ids lists of at most MaxBatchFiles ids, one per multiset of ids:
\* the coroutines run in any order whatever their place in the list.
BatchFileLists ==
  {ids \in UNION {[1..n -> BatchFileIds] : n \in 0..MaxBatchFiles} :
     \A i, j \in DOMAIN ids : i <= j => ids[i] <= ids[j]}

InitBatch ==
  /\ NotBatchIdle
  /\ segmented = BatchSegmented
  /\ file_ids \in BatchFileLists
  /\ batch_pc = "called"
  /\ batch_status = <<>>
  /\ tasks = <<>>
  /\ db_blocks = {}

NextBatch ==
  \/ ProcessBatch
  \/ \E k \in DOMAIN tasks : TaskStart(k)
  \/ \E k \in DOMAIN tasks : NormalizeRaises(k)
  \/ \E k \in DOMAIN tasks : Normalized(k)
  \/ \E k \in DOMAIN tasks : Segmented(k)
  \/ GatherReturns

\* The event loop runs a coroutine that can run.
SpecBatch == InitBatch /\ [][NextBatch]_vars /\ WF_vars(NextBatch)

StageBefore(log, p, stage, block, ok) ==
  \E q \in 1..(p - 1) : log[q] = [stage |-> stage, block |-> block, ok |-> ok]

\* C18: per block the stages run in the order segment, validate, filter,
\* secret scan, store: a stored block was returned by segment, reported valid
\* and accepted; the scanner runs only on blocks that were valid and accepted;
\* every row in the session or the database was stored that way.
C18_StageOrder ==
  /\ \A k \in DOMAIN tasks :
       LET log == tasks[k].log
       IN  \A p \in DOMAIN log :
             /\ log[p].stage = "validate" => StageBefore(log, p, "segment", log[p].block, TRUE)
             /\ log[p].stage = "filter" => StageBefore(log, p, "validate", log[p].block, TRUE)
             /\ log[p].stage = "scan" =>
                  /\ StageBefore(log, p, "filter", log[p].block, TRUE)
                  /\ StageBefore(log, p, "validate", log[p].block, TRUE)
             /\ log[p].stage = "store" =>
                  /\ StageBefore(log, p, "scan", log[p].block, TRUE)
                  /\ StageBefore(log, p, "filter", log[p].block, TRUE)
                  /\ StageBefore(log, p, "validate", log[p].block, TRUE)
                  /\ StageBefore(log, p, "segment", log[p].block, TRUE)
  /\ \A row \in db_blocks :
       \E p \in DOMAIN tasks[row.task].log :
         tasks[row.task].log[p] = [stage |-> "store", block |-> <<row.start_line, row.end_line>>, ok |-> TRUE]

\* A batch of two files: the block of one was stored with its secret tagged,
\* the block of the other was turned down by the filter.
C18_Witness ==
  /\ batch_pc = "returned"
  /\ \E row \in db_blocks : row.has_secrets /\ row.secret_type = <<{"GENERIC_PASSWORD"}>>
  /\ \E k \in DOMAIN tasks :
       /\ tasks[k].result = "success"
       /\ \E p \in DOMAIN tasks[k].log :
            tasks[k].log[p].stage = "filter" /\ ~tasks[k].log[p].ok

BatchCounts ==
  batch_pc \in {"gather", "returned"} =>
    batch_status.completed_files + batch_status.failed_files <= batch_status.total_files

BatchFinal ==
  batch_pc = "returned" =>
    /\ ~batch_status.in_progress
    /\ \A k \in DOMAIN file_ids :
         /\ file_ids[k] \in DOMAIN batch_status.file_statuses
         /\ batch_status.file_statuses[file_ids[k]] \in {"complete", "error"}
    /\ batch_status.completed_files + batch_status.failed_files = batch_status.total_files

\* C19: whatever fails in the files, process_batch returns with in_progress
\* false, every file id 'complete' or 'error' and completed_files +
\* failed_files = total_files; before that the sum never exceeds total_files.
C19_BatchSurvivesFailures ==
  /\ [](BatchCounts /\ BatchFinal)
  /\ <>(batch_pc = "returned")

\* A batch of a file that completed, and of one whose exception left the
\* coroutine, has returned.
C19_Witness ==
  /\ batch_pc = "returned"
  /\ \E k \in DOMAIN tasks : tasks[k].result = "raised"
  /\ \E k \in DOMAIN tasks : tasks[k].result = "success"


\* ------------------------------------------- strategies claiming lines
\* Lines 86-115: the position of a strategy in the order segment runs them.
StrategyOrder(method) ==
  CASE method = "delimiter" -> 1
    [] method = "markdown" -> 2
    [] method = "indentation" -> 3
    [] method = "keyword" -> 4
    [] method = "density" -> 5

\* C21: in the candidate list segment builds before deduplication, no
\* candidate of a later strategy contains a line of a candidate of an earlier
\* strategy.
C21_EarlierClaimsFirst ==
  (pc = "done" /\ ~Truthy(language)) =>
    LET c == StrategyCandidates(text, min_block_lines)
    IN  \A i, j \in DOMAIN c :
          StrategyOrder(c[i].detection_method) < StrategyOrder(c[j].detection_method)
            => ~Overlap(c[i], c[j])


\* ------------------------------------------------------- keyword blocks
\* The candidates of the call's text, and those of the keyword strategy.
CallCandidates == StrategyCandidates(text, min_block_lines)

KeywordCandidates == {b \in Range(CallCandidates) : b.detection_method = "keyword"}

\* Lines 86-105: the lines marked when the keyword strategy starts.
MarkedBeforeKeyword ==
  UNION {BlockLines(b) : b \in {c \in Range(CallCandidates) :
                                  c.detection_method \in {"delimiter", "markdown", "indentation"}}}

\* The third line of a run of blank lines that began after line s.
GapExceeded(s, j) ==
  /\ j - max_gap > s
  /\ \A k \in (j - max_gap)..j : IsBlank[LineAt(text, k)]

\* The first line after s at which a block opened at s stops (the line count
\* if there is none): a line of stops, a gap of more than max_gap blank lines,
\* or a new unindented top-level keyword line.
StopLine(s, stops) ==
  LET js == {j \in (s + 1)..(Len(text) - 1) :
               \/ j \in stops
               \/ GapExceeded(s, j)
               \/ IsNewTopLevel[LineAt(text, j)]}
  IN  IF js = {} THEN Len(text) ELSE MinOf(js)

\* The last non-blank line before the stop.
LastLine(s, stops) == MaxOf({k \in s..(StopLine(s, stops) - 1) : ~IsBlank[LineAt(text, k)]})

\* Every keyword candidate runs from its opening line to the last non-blank
\* line before its stop, holds those lines, and has confidence 0.85; every
\* unmarked opening line outside the reach of an earlier keyword block opens one.
KeywordExtent(stops) ==
  /\ \A b \in KeywordCandidates :
       /\ b.end_line = LastLine(b.start_line, stops)
       /\ b.content = Content(Slice(text, b.start_line, b.end_line + 1), TRUE)
       /\ b.confidence = Rat(85, 100)
  /\ \A i \in 0..(Len(text) - 1) :
       (/\ IsStart[LineAt(text, i)]
        /\ i \notin MarkedBeforeKeyword
        /\ ~\E b \in KeywordCandidates :
              b.start_line < i /\ i < StopLine(b.start_line, MarkedBeforeKeyword))
       => \E b \in KeywordCandidates : b.start_line = i

\* Scenario B returns exactly one block, the keyword block of both lines.
ScenarioBOneBlock ==
  text = ScenarioB =>
    /\ outcome.kind = "return"
    /\ Len(outcome.blocks) = 1
    /\ outcome.blocks[1].detection_method = "keyword"
    /\ outcome.blocks[1].confidence = Rat(85, 100)
    /\ outcome.blocks[1].end_line = outcome.blocks[1].start_line + 1
    /\ ContentChars(outcome.blocks[1].content) = join(<<LINES["D"], LINES["R"]>>)

\* C22 as stated: a keyword block extends through all following lines until a
\* run of more than 2 blank lines or a new unindented top-level keyword line,
\* with confidence 0.85 and method keyword; scenario B gives one block of both
\* lines.
C22_KeywordExtentAsStated ==
  (pc = "done" /\ ~Truthy(language)) => KeywordExtent({}) /\ ScenarioBOneBlock

\* C22 amended: the block also stops at the first line that an earlier
\* strategy (delimiter, markdown, indentation) has claimed.
C22_KeywordExtent ==
  (pc = "done" /\ ~Truthy(language)) => KeywordExtent(MarkedBeforeKeyword) /\ ScenarioBOneBlock

\* A keyword block cut short by a claimed line, in a text that also has a
\* keyword block ended by a new top-level keyword line.
C22_Witness ==
  /\ pc = "done" /\ ~Truthy(language)
  /\ \E b \in KeywordCandidates :
       /\ StopLine(b.start_line, MarkedBeforeKeyword) \in MarkedBeforeKeyword
       /\ StopLine(b.start_line, {}) # StopLine(b.start_line, MarkedBeforeKeyword)
  /\ \E b \in KeywordCandidates :
       /\ StopLine(b.start_line, MarkedBeforeKeyword) < Len(text)
       /\ IsNewTopLevel[LineAt(text, StopLine(b.start_line, MarkedBeforeKeyword))]


\* --------------------------------------------------- indentation blocks
IndentationCandidates == {b \in Range(CallCandidates) : b.detection_method = "indentation"}

\* Lines 86-102: the lines marked when the indentation strategy starts.
MarkedBeforeIndentation ==
  UNION {BlockLines(b) : b \in {c \in Range(CallCandidates) :
                                  c.detection_method \in {"delimiter", "markdown"}}}

\* Line i is an unclaimed non-blank line indented by >= 4 columns or a tab.
InRun(i) ==
  /\ i \in 0..(Len(text) - 1)
  /\ i \notin MarkedBeforeIndentation
  /\ IsIndentedCode[LineAt(text, i)]

\* The maximal contiguous runs a..b of such lines.
IndentedRuns ==
  {r \in (0..(Len(text) - 1)) \X (0..(Len(text) - 1)) :
     /\ r[1] <= r[2]
     /\ \A i \in r[1]..r[2] : InRun(i)
     /\ ~InRun(r[1] - 1)
     /\ ~InRun(r[2] + 1)}

\* At least min_block_lines lines and technical density above 0.15.
Admissible(r) ==
  /\ r[2] - r[1] + 1 >= min_block_lines
  /\ RatGT(_calculate_technical_density(Slice(text, r[1], r[2] + 1)), Rat(15, 100))

\* C23: the indentation blocks are exactly the admissible runs: each block is a
\* maximal run of at least min_block_lines indented non-blank lines with
\* density above 0.15, however the run ends, and every such run is emitted.
C23_IndentedRuns ==
  (pc = "done" /\ ~Truthy(language)) =>
    /\ \A b \in IndentationCandidates :
         /\ <<b.start_line, b.end_line>> \in IndentedRuns
         /\ Admissible(<<b.start_line, b.end_line>>)
    /\ \A r \in IndentedRuns :
         Admissible(r) => \E b \in IndentationCandidates : <<b.start_line, b.end_line>> = r


\* ------------------------------------------------------ explicit blocks
\* Lines 86-99: the delimiter blocks found in the text, and the markdown
\* blocks found that share no line with a delimiter block.
ExplicitBlocks ==
  LET delimited_blocks == _extract_delimited_blocks(text)
      markdown_blocks  == _extract_markdown_blocks(text, min_block_lines)
  IN  Range(delimited_blocks)
        \cup {m \in Range(markdown_blocks) :
                \A d \in Range(delimited_blocks) : ~Overlap(m, d)}

SpeculativeCandidates ==
  {c \in Range(CallCandidates) : c.detection_method \in {"indentation", "keyword", "density"}}

ExtractTexts == {<<"D", "R">>, <<"D", "D">>, <<"P", "P">>}

\* Line 78: Segmenter() has the default min_block_lines.  Lines 89-93:
\* segment(content, language=file_meta.file_type, filename=...).
ExtractSegmented ==
  Table([file_type \in {FILES[id].file_type : id \in DOMAIN FILES} |->
           Table([t \in ExtractTexts |-> segment(t, file_type, 3)])])

\* HTTPException(status_code=...), a response, and an exception that leaves
\* the endpoint.
HTTPException(status_code) == [kind |-> "HTTPException", status_code |-> status_code, blocks |-> <<>>]
ExtractionResponse(blocks) == [kind |-> "response", status_code |-> 200, blocks |-> blocks]
Uncaught(exc) == [kind |-> exc, status_code |-> 500, blocks |-> <<>>]

\* Lines 41, 43: the rows of extracted_blocks with this file_id.
RowsOf(rows, file_id) == SelectSeq(rows, LAMBDA r : r.file_id = file_id)

\* Lines 105-119: one row per accepted block.  Field by names the request
\* that made the row; the program does not store it.
RECURSIVE NewRows(_, _, _, _, _, _)
NewRows(k, file_id, blocks, accepted, i, next_id) ==
  IF i > Len(blocks) THEN <<>>
  ELSE IF i \in accepted
  THEN <<[id |-> next_id, file_id |-> file_id, start_line |-> blocks[i].start_line,
          end_line |-> blocks[i].end_line, by |-> k]>>
         \o NewRows(k, file_id, blocks, accepted, i + 1, next_id + 1)
  ELSE NewRows(k, file_id, blocks, accepted, i + 1, next_id)

SetCall(k, pos, ret) ==
  extract_calls' = [extract_calls EXCEPT ![k] = [@ EXCEPT !.pc = pos, !.ret = ret]]

\* Lines 37-65: the file lookup and the check for existing blocks.
ExtractCheck(k) ==
  /\ extract_calls[k].pc = "called"
  /\ LET file_id       == extract_calls[k].file_id
         file_meta     == query_first(file_id)
         existing_rows == RowsOf(extract_rows, file_id)
     IN  IF file_meta = <<>>
         THEN SetCall(k, "done", HTTPException(404))
         ELSE IF Len(existing_rows) > 0
         THEN SetCall(k, "done", ExtractionResponse(existing_rows))
         ELSE SetCall(k, "extracting", extract_calls[k].ret)
  /\ UNCHANGED <<extract_text, extract_rows>>
  /\ UNCHANGED notExtractVars

\* Lines 105-139, given what segment returned.
StoreBlocks(k, file_id, ret) ==
  IF ret.kind = "raise"
  THEN /\ SetCall(k, "done", Uncaught(ret.exc))
       /\ UNCHANGED extract_rows
  ELSE \E accepted \in SUBSET DOMAIN ret.blocks :
         LET db_blocks_new == NewRows(k, file_id, ret.blocks, accepted, 1, Len(extract_rows) + 1)
         IN  /\ extract_rows' = extract_rows \o db_blocks_new
             /\ SetCall(k, "done", ExtractionResponse(db_blocks_new))

\* Lines 67-139: the path check, normalize, segment, validate, filter, store
\* and commit.
ExtractStore(k) ==
  /\ extract_calls[k].pc = "extracting"
  /\ \E exists \in BOOLEAN, normalized \in BOOLEAN :
       IF ~exists
       THEN SetCall(k, "done", HTTPException(404)) /\ UNCHANGED extract_rows
       ELSE IF ~normalized
       THEN SetCall(k, "done", HTTPException(500)) /\ UNCHANGED extract_rows
       ELSE StoreBlocks(k, extract_calls[k].file_id,
                        ExtractSegmented[FILES[extract_calls[k].file_id].file_type][extract_text])
  /\ UNCHANGED extract_text
  /\ UNCHANGED notExtractVars

NoResponse == [kind |-> "none", status_code |-> 0, blocks |-> <<>>]

InitExtract ==
  /\ NotExtractIdle
  /\ extract_text \in ExtractTexts
  /\ extract_calls \in [1..MaxExtractCalls ->
                          [file_id : BatchFileIds, pc : {"called"}, ret : {NoResponse}]]
  /\ extract_rows = <<>>

NextExtract == \E k \in 1..MaxExtractCalls : ExtractCheck(k) \/ ExtractStore(k)

SpecExtract == InitExtract /\ [][NextExtract]_vars

InitFallback ==
  /\ Constructed(3)
  /\ text \in Texts
  /\ language = None
  /\ outcome = NoOutcome
  /\ pc = "ready"
  /\ blocks_in = <<>>
  /\ blocks_out = <<>>
  /\ grammar_files = {}
  /\ probe_first = NoOutcome
  /\ probe_calls = 0
  /\ LaterIdle

\* FallbackExtractor().extract(text, filename)
FallbackExtract ==
  /\ pc = "ready"
  /\ blocks_out' = FallbackExtractor_extract(text)
  /\ pc' = "extracted"
  /\ UNCHANGED <<min_block_lines, text, language, outcome, blocks_in, parsers, languages,
                 grammar_files, probe_first, probe_calls>>
  /\ UNCHANGED laterVars

NextFallback == FallbackExtract

SpecFallback == InitFallback /\ [][NextFallback]_vars

\* The 1-indexed numbers of the non-blank lines of the text.
NonBlankLines == {i \in 1..Len(text) : ~IsBlank[text[i]]}

\* C27: every returned block is a maximal run of consecutive non-blank lines
\* with exactly that run as its 1-indexed [start_line, end_line] and content;
\* every non-blank line lies in exactly one block and no blank line in any;
\* the blocks come in ascending line order.
C27_FallbackPartition ==
  pc = "extracted" =>
    /\ \A k \in DOMAIN blocks_out :
         LET b == blocks_out[k]
         IN  /\ 1 <= b.start_line /\ b.start_line <= b.end_line /\ b.end_line <= Len(text)
             /\ (b.start_line..b.end_line) \subseteq NonBlankLines
             /\ (b.start_line - 1) \notin NonBlankLines
             /\ (b.end_line + 1) \notin NonBlankLines
             /\ b.content = Content(SubSeq(text, b.start_line, b.end_line), FALSE)
    /\ \A i \in NonBlankLines :
         Cardinality({k \in DOMAIN blocks_out :
                        i \in blocks_out[k].start_line..blocks_out[k].end_line}) = 1
    /\ \A k, l \in DOMAIN blocks_out : k < l => blocks_out[k].end_line < blocks_out[l].start_line
    /\ NonBlankLines = {} => blocks_out = <<>>

\* A text that opens with a blank line and has two runs, the last one ending
\* with the text.
C27_Witness ==
  /\ pc = "extracted"
  /\ Len(blocks_out) >= 2
  /\ 1 \notin NonBlankLines
  /\ Len(text) \in NonBlankLines
  /\ \E k \in DOMAIN blocks_out : blocks_out[k].end_line > blocks_out[k].start_line


\* ------------------------------------------------- unavailable outcomes
\* C29: a get_parser(L) call that returns None leaves no entry for L in the
\* parsers cache; a later call for a supported L returns None only if loading
\* or building fails in that call itself, and returns a parser otherwise,
\* whatever earlier calls returned; the caches hold keys of
\* SUPPORTED_LANGUAGES only, and every key of parsers is a key of languages.
C29_UnavailableNotMemoized ==
  /\ \A t \in DOMAIN threads :
       LET th == threads[t]
       IN  CameBack(th, "get_parser") =>
             /\ th.ret.kind = "None" => instances[th.self].parsers[th.lang] = 0
             /\ th.lang \in SUPPORTED_LANGUAGES =>
                  /\ th.ret.kind \in {"None", "object"}
                  /\ th.ret.kind = "None" <=> th.fault # ""
  /\ \A i \in DOMAIN instances : \A l \in ManagerLangs :
       /\ instances[i].parsers[l] # 0 =>
            (l \in SUPPORTED_LANGUAGES /\ instances[i].languages[l] # 0)
       /\ instances[i].languages[l] # 0 => l \in SUPPORTED_LANGUAGES

\* get_parser(L) returned None for a missing grammar, the grammar was
\* installed, and the next get_parser(L) returned a parser.
C29_Witness ==
  \E t \in DOMAIN threads :
    /\ CameBack(threads[t], "get_parser")
    /\ threads[t].prev_fault = "missing"
    /\ threads[t].ret.kind = "object"
    /\ threads[t].lang_obj # 0

\* -------------------------------- what a failed file leaves in storage
\* One process_batch call on files whose content has two blocks.
InitTwoBlocks ==
  /\ NotBatchIdle
  /\ segmented = SegmentedTexts(TwoBlockTexts)
  /\ file_ids \in BatchFileLists
  /\ batch_pc = "called"
  /\ batch_status = <<>>
  /\ tasks = <<>>
  /\ db_blocks = {}

SpecTwoBlocks == InitTwoBlocks /\ [][NextBatch]_vars

\* The rows a commit wrote: those of a coroutine that got past line 157, and
\* those the except block's commit (line 193) wrote along with the 'error'
\* status.  Rows whose rollback raised stay in the session uncommitted.
Committed ==
  {row \in db_blocks : tasks[row.task].result \in {"success", "error"}}

C30_PartialCommit ==
  \E k \in DOMAIN tasks :
    /\ tasks[k].result = "error"
    /\ batch_status.file_statuses[tasks[k].file_id] = "error"
    /\ \E row \in Committed : row.task = k
    /\ \E p, q \in DOMAIN tasks[k].log :
         /\ tasks[k].log[p].stage = "store"
         /\ tasks[k].log[q].stage = "segment"
         /\ tasks[k].log[q].block # tasks[k].log[p].block
         /\ \A r \in DOMAIN tasks[k].log :
              tasks[k].log[r].stage = "validate" => tasks[k].log[r].block # tasks[k].log[q].block

====
